---- MODULE Spec2Model ----
(***************************************************************************)
(* A model of beanbag_docutils.sphinx.ext.autodoc_utils.BeanbagDocstring:  *)
(* the line buffer (peek_lines / consume_lines / queue_line), the          *)
(* multi-line field reconstruction of _consume_field and the type          *)
(* reference rewriter make_type_reference.                                 *)
(*                                                                         *)
(* Text is modelled character by character: a character is a one-character *)
(* string, a line (a Python str) is a sequence of characters, and the line *)
(* buffer is a sequence of lines.                                          *)
(***************************************************************************)
EXTENDS Integers, Sequences, FiniteSets, TLC

VARIABLES
    lines,        \* self._lines: the unconsumed lines of the docstring
    aliases,      \* self._config.napoleon_type_aliases
    pc,           \* position of the parser
    parse_type,   \* the parse_type argument of the running _consume_field
    orig,         \* history: the buffer when _consume_field was entered
    rebuilt,      \* history: _consume_field's 'result' was set and queued
    result,       \* history: _consume_field's 'result' ('' when None)
    nscanned,     \* history: len(lines) of the successful peek, else 0
    type_str,     \* the type expression handed to make_type_reference
    type_ref,     \* what make_type_reference returned
    exc,          \* the exception that ended the parse ("" while none)
    section,      \* the kind of strategy this parse runs
    admonition,   \* the admonition name of the running version-info section
    require_type, \* the require_type option of the running returns section
    out,          \* the lines the running section strategy returned
    call,         \* the last call of a buffer operation, with what it returned
    prev_call,    \* the call of a buffer operation before that one
    buf_before,   \* the buffer as the last buffer operation found it
    sections,     \* self._sections: keyword -> strategy
    todo,         \* the registrations __init__ has still to make
    header,       \* the header line of the docstring, without its colon
    dispatched,   \* the strategy the parse ran for the header
    parse_count,  \* how often super()._parse() has run
    parsed_with,  \* the registry as the parse found it
    last_reg,     \* the last registration: keyword and strategy
    latest,       \* keyword -> the strategy of its most recent registration
    sections_before, \* the registry as the last registration found it
    autodoc_excludes, \* config.autodoc_excludes
    user_excludes, \* autodoc_excludes as conf.py (or the default) set it
    member,       \* the last autodoc-skip-member event: what, name, skip, module
    skipped,      \* what _filter_members returned for it
    ast_cache,    \* github._ast_cache: (module, tree) entries, newest first
    head_ref,     \* github._head_ref: the cached commit SHA, "" for None
    request,      \* the arguments of the last call into the github module
    outcome,      \* what that call returned and did
    cache_before, \* _ast_cache as that call found it
    head_before,  \* _head_ref as that call found it
    globalcontext \* JSONBuilder.globalcontext: its 'toc' key

\* The variables of the section strategies other than the fields one.
secVars == <<section, admonition, require_type, out>>

\* The record of the calls of peek_lines, consume_lines and queue_line.
bufVars == <<call, prev_call, buf_before>>

\* The registry, the constructor's progress and the record of the
\* registrations.
regVars == <<sections, todo, header, dispatched, parse_count, parsed_with,
             last_reg, latest, sections_before>>

\* The configuration and the record of the autodoc-skip-member events.
cfgVars == <<autodoc_excludes, user_excludes, member, skipped>>

\* The state of the extensions other than autodoc_utils: the caches of the
\* github module, the record of the calls into it and the global context of
\* the JSON builder.
extVars ==
    <<ast_cache, head_ref, request, outcome, cache_before, head_before,
      globalcontext>>

\* The variables no section strategy touches.
otherVars == <<bufVars, regVars, cfgVars, extVars>>

\* The variables no step of _consume_field touches.
beyondFields == <<secVars, otherVars>>

vars == <<lines, aliases, pc, parse_type, orig, rebuilt, result, nscanned,
          type_str, type_ref, exc, secVars, otherVars>>

-----------------------------------------------------------------------------
(* Bounds of the model. *)

\* The longest docstring (in lines) the buffer starts with.
MaxLines == 4

\* The most space-separated tokens in a type expression's primary clause.
MaxTokens == 3

\* The most lines one call of peek_lines or consume_lines asks for.
MaxPeek == 3

\* The most top-level nodes of a generated module.
MaxNodes == 3

\* The most lines git branch -rv --contains prints.
MaxRefs == 3

\* The most entries of one toctree.
MaxChildren == 2

-----------------------------------------------------------------------------
(* Python str helpers. *)

\* str.isspace() for one character.
IsSpace(c) == c = " "

RECURSIVE LStrip(_)
LStrip(s) ==
    IF s # <<>> /\ IsSpace(Head(s)) THEN LStrip(Tail(s)) ELSE s

RECURSIVE RStrip(_)
RStrip(s) ==
    IF s # <<>> /\ IsSpace(s[Len(s)])
    THEN RStrip(SubSeq(s, 1, Len(s) - 1))
    ELSE s

\* str.strip()
Strip(s) == RStrip(LStrip(s))

\* str.startswith(c) / str.endswith(c) for a single character c.
StartsWith(s, c) == s # <<>> /\ s[1] = c

EndsWith(s, c) == s # <<>> /\ s[Len(s)] = c

\* c in s
Contains(s, c) == \E i \in 1..Len(s) : s[i] = c

\* sep.join(parts)
RECURSIVE JoinSeq(_, _)
JoinSeq(parts, sep) ==
    IF parts = <<>> THEN <<>>
    ELSE IF Len(parts) = 1 THEN parts[1]
    ELSE parts[1] \o sep \o JoinSeq(Tail(parts), sep)

\* s.split(c) for a single-character separator: empty parts are kept.
RECURSIVE SplitOn(_, _)
SplitOn(s, c) ==
    IF ~Contains(s, c) THEN <<s>>
    ELSE LET p == CHOOSE i \in 1..Len(s) :
                      s[i] = c /\ \A j \in 1..(i - 1) : s[j] # c
         IN  <<SubSeq(s, 1, p - 1)>> \o SplitOn(SubSeq(s, p + 1, Len(s)), c)

-----------------------------------------------------------------------------
(* The line buffer. *)

\* The end marker Deque.get() returns past the end of the buffer: not a str.
Sentinel == <<"<sentinel>">>

\* isinstance(x, str)
IsStr(x) == x # Sentinel

\* A faulty variant of peek_lines: the window starts one line late.
peek_lines_late(buf, num_lines) ==
    [i \in 1..num_lines |-> IF i + 1 <= Len(buf) THEN buf[i + 1]
                                                 ELSE Sentinel]

\* peek_lines(num_lines): [lines.get(i) for i in range(num_lines)]
peek_lines(buf, num_lines) ==
    [i \in 1..num_lines |-> IF i <= Len(buf) THEN buf[i] ELSE Sentinel]

\* A faulty variant of consume_lines: one popleft() too few.
consume_lines_short(buf, num_lines) == SubSeq(buf, num_lines, Len(buf))

\* consume_lines(num_lines): num_lines times popleft()
consume_lines(buf, num_lines) == SubSeq(buf, num_lines + 1, Len(buf))

\* queue_line(line): appendleft(line)
queue_line(buf, line) == <<line>> \o buf

-----------------------------------------------------------------------------
(* The patterns of _consume_field. *)

MAX_PARTIAL_TYPED_ARG_LINES == 3

\* partial_typed_arg_start_re.match(line) is not None, for
\* r'\s*(.+?)\s*\(\s*(.*[^\s]+)\s*[^:)]*$': some "(" that is not the first
\* character is followed, anywhere, by a non-space character.  The greedy
\* (.*[^\s]+) may swallow any ")" and ":", so the tail [^:)]* excludes nothing.
StartMatch(line) ==
    \E p \in 2..Len(line) :
        /\ line[p] = "("
        /\ \E q \in (p + 1)..Len(line) : ~IsSpace(line[q])

\* partial_typed_arg_end_re.match(line) is not None, for r'\s*(.+?)\s*\):$':
\* the line ends with "):" and has at least one character before it.
EndMatch(line) ==
    /\ Len(line) >= 3
    /\ line[Len(line) - 1] = ")"
    /\ line[Len(line)] = ":"

\* COMMA_RE.split(s), COMMA_RE = r',\s*': cut at every comma together with
\* the whitespace that follows it.
RECURSIVE CommaSplit(_)
CommaSplit(s) ==
    IF ~Contains(s, ",") THEN <<s>>
    ELSE LET p == CHOOSE i \in 1..Len(s) :
                      s[i] = "," /\ \A j \in 1..(i - 1) : s[j] # ","
         IN  <<SubSeq(s, 1, p - 1)>>
                 \o CommaSplit(LStrip(SubSeq(s, p + 1, Len(s))))

\* A faulty variant of NormalizeCommas: the parts are joined with ',' alone.
NormalizeCommasBare(s) ==
    IF Contains(s, ",") THEN JoinSeq(CommaSplit(s), <<",">>) ELSE s

\* if ',' in result: result = ', '.join(self.COMMA_RE.split(result))
NormalizeCommas(s) ==
    IF Contains(s, ",") THEN JoinSeq(CommaSplit(s), <<",", " ">>) ELSE s

\* A faulty variant of JoinParts: a space between all fragments, dotted or not.
RECURSIVE JoinPartsNoDotRule(_, _, _, _)
JoinPartsNoDotRule(ls, k, hasPrev, prev) ==
    IF k > Len(ls) THEN <<>>
    ELSE LET line == ls[k]
             norm_line == Strip(line)
             piece == IF norm_line # <<>> /\ hasPrev
                      THEN <<" ">> \o line
                      ELSE line
         IN  piece \o JoinPartsNoDotRule(ls, k + 1, TRUE, norm_line)

\* The loop "for line in lines" that fills "parts", from line k on;
\* hasPrev is "prev_line is not None" and prev is prev_line.  Only the
\* dot-adjacent branch replaces the line by its stripped form.
RECURSIVE JoinParts(_, _, _, _)
JoinParts(ls, k, hasPrev, prev) ==
    IF k > Len(ls) THEN <<>>
    ELSE LET line == ls[k]
             norm_line == Strip(line)
             piece ==
                 IF norm_line # <<>> /\ hasPrev
                 THEN IF StartsWith(norm_line, ".") \/ EndsWith(prev, ".")
                      THEN norm_line
                      ELSE <<" ">> \o line
                 ELSE line
         IN  piece \o JoinParts(ls, k + 1, TRUE, norm_line)

\* result = ''.join(parts), then the comma normalisation.
Reassemble(ls) == NormalizeCommas(JoinParts(ls, 1, FALSE, <<>>))

\* A faulty variant of ScanRange: the bound itself is included.
ScanRangeInclusive == 1..MAX_PARTIAL_TYPED_ARG_LINES

\* range(1, self.MAX_PARTIAL_TYPED_ARG_LINES)
ScanRange == 1..(MAX_PARTIAL_TYPED_ARG_LINES - 1)

\* A faulty variant of Scan: a line that opens a new field does not end the loop.
RECURSIVE ScanNoStartBail(_, _)
ScanNoStartBail(buf, i) ==
    IF i \notin 1..(MAX_PARTIAL_TYPED_ARG_LINES - 1) THEN 0
    ELSE LET l == peek_lines(buf, i + 1)[i + 1]
         IN  IF ~IsStr(l) THEN 0
             ELSE IF EndMatch(l) /\ ~StartMatch(l) THEN i + 1
             ELSE ScanNoStartBail(buf, i + 1)

\* A faulty variant of Scan: the close pattern is tried before the start pattern.
RECURSIVE ScanCloseFirst(_, _)
ScanCloseFirst(buf, i) ==
    IF i \notin 1..(MAX_PARTIAL_TYPED_ARG_LINES - 1) THEN 0
    ELSE LET l == peek_lines(buf, i + 1)[i + 1]
         IN  IF ~IsStr(l) THEN 0
             ELSE IF EndMatch(l) THEN i + 1
             ELSE IF StartMatch(l) THEN 0
             ELSE ScanCloseFirst(buf, i + 1)

\* The lookahead loop from index i on: the number of peeked lines (i + 1)
\* when lines[i] closes the field, 0 when the loop ends without a result.
RECURSIVE Scan(_, _)
Scan(buf, i) ==
    IF i \notin ScanRange THEN 0
    ELSE LET ls == peek_lines(buf, i + 1)
             l == ls[i + 1]
         IN  IF ~IsStr(l) THEN 0
             ELSE IF StartMatch(l) THEN 0
             ELSE IF EndMatch(l) THEN i + 1
             ELSE Scan(buf, i + 1)

-----------------------------------------------------------------------------
(* The single-line field parser of the parent class, which _consume_field  *)
(* defers to (sphinx.ext.napoleon.GoogleDocstring._consume_field): it      *)
(* takes the next line, splits it at the first colon and reads the type    *)
(* out of name (type)  with r'(.+?)\(\s*(.*[^\s]+)\s*\)', then consumes   *)
(* the indented description block below the line.                          *)

\* before of _partition_field_on_colon: the text before the first colon.
BeforeColon(line) ==
    IF ~Contains(line, ":") THEN line
    ELSE LET p == CHOOSE i \in 1..Len(line) :
                      line[i] = ":" /\ \A j \in 1..(i - 1) : line[j] # ":"
         IN  SubSeq(line, 1, p - 1)

\* The positions (p, q) of a "(" that is not the first character and of a
\* later ")" with a non-space character between them.
TypedArgSpans(before) ==
    {pq \in (2..Len(before)) \X (2..Len(before)) :
        /\ before[pq[1]] = "("
        /\ before[pq[2]] = ")"
        /\ \E r \in (pq[1] + 1)..(pq[2] - 1) : ~IsSpace(before[r])}

\* group(2) of the typed-arg match ('' without a match): lazy name, greedy
\* type, so the leftmost "(" and the rightmost ")".
TypedArgType(before) ==
    IF TypedArgSpans(before) = {} THEN <<>>
    ELSE LET spans == TypedArgSpans(before)
             pq == CHOOSE x \in spans :
                       \A y \in spans : x[1] <= y[1] /\ x[2] >= y[2]
         IN  Strip(SubSeq(before, pq[1] + 1, pq[2] - 1))

\* _get_indent(line): the number of leading whitespace characters.
GetIndent(line) == Len(line) - Len(LStrip(line))

\* _is_indented(line, indent)
IsIndented(line, indent) ==
    /\ Len(line) > indent
    /\ \A j \in 1..indent : IsSpace(line[j])

\* The number of lines _consume_indented_block(indent) takes from buf.
RECURSIVE BlockLen(_, _)
BlockLen(buf, indent) ==
    IF buf # <<>> /\ (Head(buf) = <<>> \/ IsIndented(Head(buf), indent))
    THEN 1 + BlockLen(Tail(buf), indent)
    ELSE 0

-----------------------------------------------------------------------------
(* make_type_reference. *)

\* The backquote character, which a TLA+ string literal cannot hold.
Backtick == "BACKQUOTE"

OfTok == <<"o", "f">>

OrTok == <<"o", "r">>

NoneTok == <<"N", "o", "n", "e">>

\* the opening of a class role, up to its backtick
ClassOpen == <<":", "c", "l", "a", "s", "s", ":", Backtick>>

\* the object role naming None
ObjNone == <<":", "o", "b", "j", ":", Backtick, "N", "o", "n", "e", Backtick>>

\* _convert_type_spec(type_part, type_aliases)
convert_type_spec(type_part, type_aliases) ==
    IF type_part \in DOMAIN type_aliases THEN type_aliases[type_part]
    ELSE IF type_part = NoneTok THEN ObjNone
    ELSE ClassOpen \o type_part \o <<Backtick>>

\* A faulty variant of TypePart: the connector words are converted like any token.
TypePartNoConnectors(type_part, type_aliases) ==
    convert_type_spec(type_part, type_aliases)

\* The body of the loop over parts[0].split(' ').
TypePart(type_part, type_aliases) ==
    IF type_part \notin {OfTok, OrTok}
    THEN convert_type_spec(type_part, type_aliases)
    ELSE type_part

\* parts[0].split(' ')
PrimaryTokens(s) == SplitOn(SplitOn(s, ",")[1], " ")

\* type_parts
TypeParts(s, type_aliases) ==
    LET toks == PrimaryTokens(s)
    IN  [i \in 1..Len(toks) |-> TypePart(toks[i], type_aliases)]

\* A faulty variant of SuffixPart: the clause keeps its surrounding whitespace.
SuffixPartUnstripped(part) == <<" ", "*">> \o part \o <<"*">>

\* f' *{_part.strip()}*'
SuffixPart(part) == <<" ", "*">> \o Strip(part) \o <<"*">>

make_type_reference(s, type_aliases) ==
    IF s = <<>> THEN s
    ELSE LET parts == SplitOn(s, ",")
             new_parts ==
                 <<JoinSeq(TypeParts(s, type_aliases), <<" ">>)>>
                     \o [i \in 1..(Len(parts) - 1) |-> SuffixPart(parts[i + 1])]
         IN  JoinSeq(new_parts, <<",">>)

-----------------------------------------------------------------------------
(* _format_admonition_with_params, with the parent's list helpers it calls *)
(* (_strip_empty, _dedent, _indent of sphinx.ext.napoleon).                *)

\* The indent _format_admonition_with_params passes to _indent.
ADMONITION_INDENT == 3

\* _strip_empty(lines): the lines from the first to the last one that is
\* not the empty string; none when all are empty.
strip_empty(ls) ==
    LET full == {i \in 1..Len(ls) : ls[i] # <<>>}
    IN  IF full = {} THEN <<>>
        ELSE LET start == CHOOSE i \in full : \A j \in full : i <= j
                 end == CHOOSE i \in full : \A j \in full : i >= j
             IN  SubSeq(ls, start, end)

\* _get_min_indent(lines): the least indent of the non-empty lines, else 0.
get_min_indent(ls) ==
    LET ind == {GetIndent(ls[i]) : i \in {j \in 1..Len(ls) : ls[j] # <<>>}}
    IN  IF ind = {} THEN 0 ELSE CHOOSE m \in ind : \A n \in ind : m <= n

\* _dedent(lines): [line[min_indent:] for line in lines]
dedent(ls) ==
    [i \in 1..Len(ls) |-> SubSeq(ls[i], get_min_indent(ls) + 1, Len(ls[i]))]

\* _indent(lines, n): [(' ' * n) + line for line in lines]
indent(ls, n) ==
    [i \in 1..Len(ls) |-> [j \in 1..n |-> " "] \o ls[i]]

\* A faulty variant of param_line: a trailing colon is kept.
param_line_keeping_colon(line) == Strip(line)

\* param_line = lines[0].strip(), less one trailing colon.
param_line(line) ==
    LET stripped == Strip(line)
    IN  IF EndsWith(stripped, ":")
        THEN SubSeq(stripped, 1, Len(stripped) - 1)
        ELSE stripped

\* '.. {admonition}::'
Directive(name) == <<".", ".", " ">> \o name \o <<":", ":">>

format_admonition_with_params(name, ls) ==
    LET body == strip_empty(ls)
    IN  IF body # <<>>
        THEN <<Directive(name) \o <<" ">> \o param_line(body[1]), <<>>>>
                 \o indent(dedent(Tail(body)), ADMONITION_INDENT)
                 \o <<<<>>>>
        ELSE <<Directive(name), <<>>>>

-----------------------------------------------------------------------------
(* _consume_returns_section, with the parent's method it defers to         *)
(* (sphinx.ext.napoleon.GoogleDocstring._consume_returns_section): the     *)
(* parent drops leading empty lines, dedents the section, and splits its   *)
(* first line at the first colon into the type and the description.        *)

\* A faulty variant of ensure_type_line: the line is not right-stripped.
ensure_type_line_unstripped(buf) ==
    IF EndsWith(RStrip(buf[1]), ":") THEN buf
    ELSE queue_line(consume_lines(buf, 1), buf[1] \o <<":">>)

\* The require_type branch on a buffer whose first element is a line:
\* param_line = lines[0].rstrip(); without a closing colon the line is
\* consumed and param_line + ':' queued.
ensure_type_line(buf) ==
    LET param == RStrip(peek_lines(buf, 1)[1])
    IN  IF ~EndsWith(param, ":")
        THEN queue_line(consume_lines(buf, 1), param \o <<":">>)
        ELSE buf

\* _consume_empty: the buffer without its leading empty lines.
consume_empty(buf) ==
    LET lead == Cardinality({i \in 1..Len(buf) :
                                \A j \in 1..i : buf[j] = <<>>})
    IN  SubSeq(buf, lead + 1, Len(buf))

\* lines = self._dedent(self._consume_to_next_section())
returns_body(buf) == dedent(consume_empty(buf))

\* after of _partition_field_on_colon: the stripped text after the first
\* colon.
AfterColon(line) ==
    Strip(SubSeq(line, Len(BeforeColon(line)) + 2, Len(line)))

\* _type of the parent's node: the stripped text before the colon of the
\* first line, '' without a colon.
returns_type(body) ==
    IF Contains(body[1], ":") THEN Strip(BeforeColon(body[1])) ELSE <<>>

\* _desc of the parent's node.
returns_desc(body) ==
    IF Contains(body[1], ":")
    THEN IF AfterColon(body[1]) # <<>>
         THEN <<AfterColon(body[1])>> \o Tail(body)
         ELSE Tail(body)
    ELSE body

-----------------------------------------------------------------------------
(* The section registry (self._sections) and the constructor. *)

\* str.lower() of one character, for the letters the keywords are spelled
\* with.
LowerChar(c) ==
    CASE c = "K" -> "k"
      [] c = "E" -> "e"
      [] c = "Y" -> "y"
      [] c = "S" -> "s"
      [] OTHER -> c

\* str.lower()
Lower(s) == [i \in 1..Len(s) |-> LowerChar(s[i])]

\* extra_returns_sections: (keyword, label, options), options being the
\* value of require_type.
extra_returns_sections ==
    <<[keyword |->
          <<"c", "o", "n", "t", "e", "x", "t">>,
       label |->
          <<"C", "o", "n", "t", "e", "x", "t">>,
       options |-> FALSE],
      [keyword |->
          <<"t", "y", "p", "e">>,
       label |->
          <<"T", "y", "p", "e">>,
       options |-> TRUE]>>

\* extra_fields_sections: (keyword, label)
extra_fields_sections ==
    <<[keyword |->
          <<"k", "e", "y", "s">>,
       label |->
          <<"K", "e", "y", "s">>],
      [keyword |->
          <<"m", "o", "d", "e", "l", " ", "a", "t", "t", "r", "i", "b", "u", "t", "e", "s">>,
       label |->
          <<"M", "o", "d", "e", "l", " ", "A", "t", "t", "r", "i", "b", "u", "t", "e", "s">>],
      [keyword |->
          <<"o", "p", "t", "i", "o", "n", " ", "a", "r", "g", "s">>,
       label |->
          <<"O", "p", "t", "i", "o", "n", " ", "A", "r", "g", "s">>],
      [keyword |->
          <<"t", "u", "p", "l", "e">>,
       label |->
          <<"T", "u", "p", "l", "e">>]>>

\* extra_version_info_sections: (keyword, admonition)
extra_version_info_sections ==
    <<[keyword |->
          <<"d", "e", "p", "r", "e", "c", "a", "t", "e", "d">>,
       label |->
          <<"d", "e", "p", "r", "e", "c", "a", "t", "e", "d">>],
      [keyword |->
          <<"v", "e", "r", "s", "i", "o", "n", " ", "a", "d", "d", "e", "d">>,
       label |->
          <<"v", "e", "r", "s", "i", "o", "n", "a", "d", "d", "e", "d">>],
      [keyword |->
          <<"v", "e", "r", "s", "i", "o", "n", " ", "c", "h", "a", "n", "g", "e", "d">>,
       label |->
          <<"v", "e", "r", "s", "i", "o", "n", "c", "h", "a", "n", "g", "e", "d">>]>>

\* Two keywords of the parent's grammar.
KwReturns == <<"r", "e", "t", "u", "r", "n", "s">>
KwArgs == <<"a", "r", "g", "s">>

\* The strategies a registry entry can be: the lambda of
\* register_returns_section (label, options), of register_fields_section
\* (label), of register_version_info_section (admonition), or a parser of
\* the parent's grammar.
ReturnsStrategy(label, options) ==
    [kind |-> "returns", label |-> label, require_type |-> options]

FieldsStrategy(label) ==
    [kind |-> "fields", label |-> label, require_type |-> FALSE]

VersionInfoStrategy(name) ==
    [kind |-> "version_info", label |-> name, require_type |-> FALSE]

BaseStrategy(keyword) ==
    [kind |-> "base", label |-> keyword, require_type |-> FALSE]

\* No strategy: the header is not a section header.
NoStrategy == [kind |-> "none", label |-> <<>>, require_type |-> FALSE]

\* The registry before the parent's constructor has filled it.
EmptyRegistry == [k \in {} |-> NoStrategy]

\* The registry as the parent's constructor leaves it.
BaseSections == [k \in {KwReturns, KwArgs} |-> BaseStrategy(k)]

\* A faulty variant of SetItem: an existing entry is kept.
SetItemIfAbsent(secs, keyword, strategy) ==
    [k \in DOMAIN secs \cup {keyword} |->
        IF k \in DOMAIN secs THEN secs[k] ELSE strategy]

\* self._sections[keyword] = strategy
SetItem(secs, keyword, strategy) ==
    [k \in DOMAIN secs \cup {keyword} |->
        IF k = keyword THEN strategy ELSE secs[k]]

\* The registrations of __init__, in the order of its three loops: a
\* subclass's further fields sections follow the built-in ones.
Registrations(subclass_fields) ==
    [i \in 1..Len(extra_returns_sections) |->
        [keyword |-> extra_returns_sections[i].keyword,
         strategy |-> ReturnsStrategy(extra_returns_sections[i].label,
                                      extra_returns_sections[i].options)]]
    \o [i \in 1..Len(extra_fields_sections \o subclass_fields) |->
        [keyword |-> (extra_fields_sections \o subclass_fields)[i].keyword,
         strategy |->
             FieldsStrategy((extra_fields_sections \o subclass_fields)[i].label)]]
    \o [i \in 1..Len(extra_version_info_sections) |->
        [keyword |-> extra_version_info_sections[i].keyword,
         strategy |->
             VersionInfoStrategy(extra_version_info_sections[i].label)]]

\* The strategy the parent's _parse runs for a header line (the text before
\* its colon): self._sections[section.lower()] when the lower-cased text is
\* a key of the registry, else none.
Dispatch(secs, text) ==
    IF Lower(text) \in DOMAIN secs THEN secs[Lower(text)] ELSE NoStrategy

\* A faulty variant of parse_runs: the parse argument is ignored.
parse_runs_always(parse) == TRUE

\* _parse(parse): if parse: super()._parse()
parse_runs(parse) == parse

-----------------------------------------------------------------------------
(* autodoc_excludes: _on_config_inited and _filter_members.  A table is a  *)
(* function from its keys to sets of names, the '__defaults__' key to a    *)
(* boolean.                                                                *)

\* The names _on_config_inited merges in when '__defaults__' is set.
BuiltinDefaults ==
    {"__annotations__", "__dict__", "__doc__", "__module__", "__weakref__"}

\* The default of the autodoc_excludes setting: {'__defaults__': True}
DefaultConfig == [k \in {"__defaults__"} |-> TRUE]

\* set(value) of a list, and what set.update(value) adds.
set_of(value) == {value[i] : i \in 1..Len(value)}

\* A faulty variant of on_config_inited: the defaults are merged in
\* whatever '__defaults__' says.
on_config_inited_always_defaults(cfg) ==
    [k \in {"*"} \cup (DOMAIN cfg \ {"*", "__defaults__"}) |->
        IF k = "*"
        THEN BuiltinDefaults
                 \cup (IF "*" \in DOMAIN cfg THEN set_of(cfg["*"]) ELSE {})
        ELSE set_of(cfg[k])]

\* The autodoc_excludes part of _on_config_inited: the values of conf.py
\* are lists, those of the result sets.
on_config_inited(cfg) ==
    IF "__defaults__" \in DOMAIN cfg /\ cfg["__defaults__"]
    THEN [k \in {"*"} \cup (DOMAIN cfg \ {"*", "__defaults__"}) |->
             IF k = "*"
             THEN BuiltinDefaults
                      \cup (IF "*" \in DOMAIN cfg THEN set_of(cfg["*"])
                                                   ELSE {})
             ELSE set_of(cfg[k])]
    ELSE [k \in DOMAIN cfg \ {"__defaults__"} |-> set_of(cfg[k])]

\* A faulty variant of filter_members: every key of the table is looked
\* under.
filter_members_any_key(module, global_excludes, what, name, skip) ==
    IF ~module.documented THEN FALSE
    ELSE IF name \in module.autodoc_excludes THEN TRUE
    ELSE IF \E key \in DOMAIN global_excludes :
                name \in global_excludes[key] THEN TRUE
    ELSE IF name \in module.deprecated THEN TRUE
    ELSE skip

\* _filter_members(app, what, name, obj, skip, options): module.documented
\* says whether env.temp_data names a module, module.autodoc_excludes and
\* module.deprecated are its __autodoc_excludes__ and __deprecated__ ([]
\* when it has none).
filter_members(module, global_excludes, what, name, skip) ==
    IF ~module.documented THEN FALSE
    ELSE IF name \in module.autodoc_excludes THEN TRUE
    ELSE IF \E key \in {what, "*"} :
                /\ key \in DOMAIN global_excludes
                /\ name \in global_excludes[key] THEN TRUE
    ELSE IF name \in module.deprecated THEN TRUE
    ELSE skip

-----------------------------------------------------------------------------
(* github: the AST lookup.  A node is a record of its kind ("assign" for   *)
(* ast.Assign, "def" for a class or function, "other"), the ids of its     *)
(* targets, its name, its body and its line.                               *)

AssignNode(targets, lineno) ==
    [kind |-> "assign", targets |-> targets, name |-> <<>>, body |-> <<>>,
     lineno |-> lineno]

DefNode(name, body, lineno) ==
    [kind |-> "def", targets |-> {}, name |-> name, body |-> body,
     lineno |-> lineno]

OtherNode(lineno) ==
    [kind |-> "other", targets |-> {}, name |-> <<>>, body |-> <<>>,
     lineno |-> lineno]

\* None, where a node is expected.
NoNode ==
    [kind |-> "none", targets |-> {}, name |-> <<>>, body |-> <<>>,
     lineno |-> 0]

\* The test of the loop of _find_path_in_ast_nodes: an ast.Assign with the
\* name among its targets, or a node with that name.
NodeMatches(node, name) ==
    \/ node.kind = "assign" /\ name \in node.targets
    \/ node.kind = "def" /\ node.name = name

\* A faulty variant of find_path_in_ast_nodes: the first match of the
\* first component is returned, nothing is searched inside it.
find_path_in_ast_nodes_flat(nodes, path) ==
    LET hits == {i \in 1..Len(nodes) : NodeMatches(nodes[i], path[1])}
    IN  IF hits = {} THEN NoNode
        ELSE nodes[CHOOSE i \in hits : \A j \in hits : i <= j]

RECURSIVE find_path_in_ast_nodes(_, _)
\* _find_path_in_ast_nodes(nodes, path): the loop stops at the first node
\* that is an assignment to path[0] or is named path[0].
find_path_in_ast_nodes(nodes, path) ==
    LET hits == {i \in 1..Len(nodes) : NodeMatches(nodes[i], path[1])}
        node == nodes[CHOOSE i \in hits : \A j \in hits : i <= j]
    IN  IF hits = {} THEN NoNode
        ELSE IF node.kind = "assign" THEN node
        ELSE IF Len(path) > 1
             THEN find_path_in_ast_nodes(node.body, Tail(path))
             ELSE node

-----------------------------------------------------------------------------
(* github: the git commands.  The environment of a call, git, holds what   *)
(* git would print: listing, the lines of git branch -rv --contains, each  *)
(* with its first column (ref_name), its second (sha) and the number of    *)
(* lines git log prints for that sha (distance); rev_parse, the output of  *)
(* git rev-parse ("" when git fails); fails, the command that exits with   *)
(* an error ("" for none).  A result holds the commands run, in order.     *)

\* str.startswith(prefix) and str.endswith(suffix)
HasPrefix(str, prefix) ==
    Len(str) >= Len(prefix) /\ SubSeq(str, 1, Len(prefix)) = prefix

HasSuffix(str, suffix) ==
    /\ Len(str) >= Len(suffix)
    /\ SubSeq(str, Len(str) - Len(suffix) + 1, Len(str)) = suffix

\* '%s/' % remote, for the default remote: 'origin/'
RemotePrefix == <<"o", "r", "i", "g", "i", "n", "/">>

\* None, where a ref name or a URL is expected.
None == <<"<None>">>

\* GIT_BRANCH_CONTAINS_RE matches the line: a first column, and a second
\* one of hexadecimal digits.
BranchLineMatches(line) ==
    /\ line.ref_name # <<>>
    /\ line.sha # <<>>
    /\ \A i \in 1..Len(line.sha) :
           line.sha[i] \in {"0", "1", "2", "3", "4", "5", "6", "7", "8", "9",
                            "a", "b", "c", "d", "e", "f"}

\* The test a matched line has to pass for its ref to be measured.
IsCandidate(line) ==
    /\ BranchLineMatches(line)
    /\ HasPrefix(line.ref_name, RemotePrefix)
    /\ ~HasSuffix(line.ref_name, <<"/", "H", "E", "A", "D">>)

\* A faulty variant of git_get_nearest_tracking_branch: a later ref at the
\* same distance replaces the best one.
git_get_nearest_tracking_branch_last(git) ==
    LET cand == {i \in 1..Len(git.listing) : IsCandidate(git.listing[i])}
        best == {i \in cand : \A j \in cand :
                    /\ git.listing[i].distance <= git.listing[j].distance
                    /\ (git.listing[i].distance = git.listing[j].distance
                           => j <= i)}
        logs == [i \in 1..Cardinality(cand) |-> "log"]
    IN  IF git.fails = "branch"
        THEN [ref |-> None, cmds |-> <<"fetch", "branch">>, raised |-> TRUE]
        ELSE IF git.fails = "log" /\ cand # {}
        THEN [ref |-> None, cmds |-> <<"fetch", "branch", "log">>,
              raised |-> TRUE]
        ELSE [ref |-> IF best = {} THEN None
                      ELSE LET name == git.listing[CHOOSE i \in best : TRUE]
                                           .ref_name
                           IN  SubSeq(name, Len(RemotePrefix) + 1, Len(name)),
              cmds |-> <<"fetch", "branch">> \o logs,
              raised |-> FALSE]

\* _git_get_nearest_tracking_branch(merge_base): fetch (a failure is
\* ignored), branch -rv --contains, then the loop over the lines, which
\* runs git log for each candidate and keeps a ref that is strictly nearer
\* than the best so far.  state is the loop's (best_distance,
\* best_ref_name, commands run), -1 standing for the None of best_distance.
git_get_nearest_tracking_branch(git) ==
    LET RECURSIVE Loop(_, _)
        Loop(i, state) ==
            IF i > Len(git.listing) THEN state
            ELSE LET line == git.listing[i]
                 IN  IF ~IsCandidate(line) THEN Loop(i + 1, state)
                     ELSE IF state.best_distance = -1
                               \/ line.distance < state.best_distance
                          THEN Loop(i + 1,
                                    [best_distance |-> line.distance,
                                     best_ref_name |-> line.ref_name,
                                     cmds |-> Append(state.cmds, "log")])
                          ELSE Loop(i + 1,
                                    [state EXCEPT
                                        !.cmds = Append(state.cmds, "log")])
        final == Loop(1, [best_distance |-> -1, best_ref_name |-> None,
                          cmds |-> <<"fetch", "branch">>])
    IN  IF git.fails = "branch"
        THEN [ref |-> None, cmds |-> <<"fetch", "branch">>, raised |-> TRUE]
        ELSE IF git.fails = "log"
                    /\ \E i \in 1..Len(git.listing) :
                           IsCandidate(git.listing[i])
        THEN [ref |-> None, cmds |-> <<"fetch", "branch", "log">>,
              raised |-> TRUE]
        ELSE [ref |-> IF final.best_ref_name # None
                         /\ HasPrefix(final.best_ref_name, RemotePrefix)
                      THEN SubSeq(final.best_ref_name, Len(RemotePrefix) + 1,
                                  Len(final.best_ref_name))
                      ELSE final.best_ref_name,
              cmds |-> final.cmds,
              raised |-> FALSE]

-----------------------------------------------------------------------------
(* github: the caches and github_linkcode_resolve.  A module object and    *)
(* the tree parsed from it are records of the same shape, told apart by    *)
(* kind ("module" or "tree"): name is the module's name, source the        *)
(* statements of its source and parses whether ast.parse accepts it.  An   *)
(* entry of _ast_cache is the pair <<module, tree>> the code stores.  The  *)
(* empty string stands for the None of _head_ref.                          *)

\* _AST_CACHE_MAX_SIZE
AST_CACHE_MAX_SIZE == 5

\* A faulty variant of find_ast_node_for_path: the cache grows without
\* bound.
find_ast_node_for_path_unbounded(cache, module, path) ==
    IF ~module.parses
    THEN [node |-> NoNode, cache |-> cache, parsed |-> FALSE]
    ELSE [node |-> find_path_in_ast_nodes(module.source, path),
          cache |-> <<<<module, [module EXCEPT !.kind = "tree"]>>>> \o cache,
          parsed |-> TRUE]

\* _find_ast_node_for_path(module, path), on the cache it finds: the node
\* (NoNode for None), the cache it leaves and whether it parsed the source.
\* The loop unpacks each entry as (_tree, _module) and compares the second
\* element with the module by identity.
find_ast_node_for_path(cache, module, path) ==
    LET hits == {i \in 1..Len(cache) : cache[i][2] = module}
        tree == IF hits = {} THEN [module EXCEPT !.kind = "tree"]
                ELSE cache[CHOOSE i \in hits : \A j \in hits : i <= j][1]
    IN  IF hits = {} /\ ~module.parses
        THEN [node |-> NoNode, cache |-> cache, parsed |-> FALSE]
        ELSE [node |-> find_path_in_ast_nodes(tree.source, path),
              cache |-> IF hits # {} THEN cache
                        ELSE <<<<module, tree>>>>
                                 \o SubSeq(cache, 1,
                                           IF Len(cache) < AST_CACHE_MAX_SIZE - 1
                                           THEN Len(cache)
                                           ELSE AST_CACHE_MAX_SIZE - 1),
              parsed |-> hits = {}]

\* A faulty variant of get_git_doc_ref: the stored SHA is not consulted.
get_git_doc_ref_uncached(head, git) ==
    LET nearest == git_get_nearest_tracking_branch(git)
    IN  [ref |-> git.rev_parse, head_ref |-> git.rev_parse,
         cmds |-> Append(nearest.cmds, "rev-parse"), raised |-> FALSE]

\* _get_git_doc_ref(branch), with _head_ref = head: the value returned, the
\* _head_ref left, the git commands run and whether an exception escaped.
\* A CalledProcessError is caught; the TypeError of a rev-parse of None (no
\* tracking branch) is not.
get_git_doc_ref(head, git) ==
    LET nearest == git_get_nearest_tracking_branch(git)
    IN  IF head # ""
        THEN [ref |-> head, head_ref |-> head, cmds |-> <<>>,
              raised |-> FALSE]
        ELSE IF nearest.raised
        THEN [ref |-> "", head_ref |-> "", cmds |-> nearest.cmds,
              raised |-> FALSE]
        ELSE IF nearest.ref = None
        THEN [ref |-> "", head_ref |-> head, cmds |-> nearest.cmds,
              raised |-> TRUE]
        ELSE IF git.fails = "rev-parse"
        THEN [ref |-> "", head_ref |-> "",
              cmds |-> Append(nearest.cmds, "rev-parse"), raised |-> FALSE]
        ELSE [ref |-> git.rev_parse, head_ref |-> git.rev_parse,
              cmds |-> Append(nearest.cmds, "rev-parse"), raised |-> FALSE]

\* sys.modules: the loaded modules.  a holds an assignment to v, b.c a class
\* B with an assignment to v, and the source of bad does not parse.
SysModules ==
    {[kind |-> "module", name |-> <<"a">>, parses |-> TRUE,
      source |-> <<AssignNode({<<"v">>}, 3)>>],
     [kind |-> "module", name |-> <<"b", ".", "c">>, parses |-> TRUE,
      source |-> <<DefNode(<<"B">>, <<AssignNode({<<"v">>}, 12)>>, 9)>>],
     [kind |-> "module", name |-> <<"b", "a", "d">>, parses |-> FALSE,
      source |-> <<>>]}

\* A faulty variant of github_linkcode_resolve: the ref is fetched before
\* the node is looked up.
github_linkcode_resolve_ref_first(req, cache, head) ==
    LET ref == get_git_doc_ref(head, req.git)
    IN  [returns |-> "None", lineno |-> 0, ref |-> "", filename |-> <<>>,
         looked_up |-> FALSE, parsed |-> FALSE, cmds |-> ref.cmds,
         cache |-> cache, head_ref |-> ref.head_ref]

\* github_linkcode_resolve(domain, info, ..., branch, allowed_module_names)
\* on the caches it finds: what it returns ("None", "url" or "raises"), the
\* parts of the URL (ref, filename, lineno), whether it looked the module up
\* and parsed it, the git commands it ran and the caches it leaves.
github_linkcode_resolve(req, cache, head) ==
    LET module_name == req.module
        nothing == [returns |-> "None", lineno |-> 0, ref |-> "",
                    filename |-> <<>>, looked_up |-> FALSE,
                    parsed |-> FALSE, cmds |-> <<>>, cache |-> cache,
                    head_ref |-> head]
        loaded == {m \in SysModules : m.name = module_name}
        submod == CHOOSE m \in loaded : TRUE
        found == find_ast_node_for_path(cache, submod,
                                        SplitOn(req.fullname, "."))
        looked == [nothing EXCEPT !.looked_up = TRUE,
                                  !.parsed = found.parsed,
                                  !.cache = found.cache]
        ref == get_git_doc_ref(head, req.git)
    IN  IF \/ req.domain # "py"
           \/ module_name = <<>>
           \/ /\ req.allowed_module_names # {}
              /\ SplitOn(module_name, ".")[1] \notin req.allowed_module_names
        THEN nothing
        ELSE IF loaded = {} THEN nothing
        ELSE IF found.node = NoNode THEN looked
        ELSE IF ref.raised
        THEN [looked EXCEPT !.returns = "raises", !.cmds = ref.cmds,
                            !.head_ref = ref.head_ref]
        ELSE [looked EXCEPT
                 !.returns = "url",
                 !.lineno = found.node.lineno,
                 !.ref = IF ref.ref # "" THEN ref.ref ELSE req.branch,
                 !.filename = [i \in 1..Len(module_name) |->
                                  IF module_name[i] = "." THEN "/"
                                  ELSE module_name[i]] \o <<".", "p", "y">>,
                 !.cmds = ref.cmds,
                 !.head_ref = ref.head_ref]

-----------------------------------------------------------------------------
(* json_writer: the table of contents.  The environment env holds titles   *)
(* (docname -> the children of its title node), toctree_includes (docname  *)
(* -> its toctree children, the empty list for a document without any) and *)
(* root_doc.  The 'toc' value of globalcontext is a record of its kind     *)
(* ("absent" while the key is not set, "None" or "list") and its entries;  *)
(* an entry is a record of the keys the dictionary has.                    *)

\* JSONBuilder._build_toc(docnames): the list of entries, or raised when
\* the recursion does not end.  depth is the number of nested calls: more
\* of them than there are documents happens only on a cycle, where Python
\* ends the unbounded recursion with a RecursionError.
RECURSIVE build_toc(_, _, _)
build_toc(env, docnames, depth) ==
    IF depth > Cardinality(DOMAIN env.titles)
    THEN [raised |-> TRUE, toc |-> <<>>]
    ELSE LET children == [i \in 1..Len(docnames) |->
                             env.toctree_includes[docnames[i]]]
             items == [i \in 1..Len(docnames) |->
                          IF children[i] # <<>>
                          THEN build_toc(env, children[i], depth + 1)
                          ELSE [raised |-> FALSE, toc |-> <<>>]]
         IN  IF \E i \in 1..Len(docnames) : items[i].raised
             THEN [raised |-> TRUE, toc |-> <<>>]
             ELSE [raised |-> FALSE,
                   toc |-> [i \in 1..Len(docnames) |->
                               IF children[i] # <<>>
                               THEN [docname |-> docnames[i],
                                     title |-> env.titles[docnames[i]][1],
                                     items |-> items[i].toc]
                               ELSE [docname |-> docnames[i],
                                     title |-> env.titles[docnames[i]][1]]]]

\* A faulty variant of handle_finish: root_doc is tried before index.
handle_finish_root_first(env) ==
    LET named == IF env.root_doc # "" /\ env.root_doc \in DOMAIN env.titles
                 THEN <<env.root_doc>>
                 ELSE IF "index" \in DOMAIN env.titles THEN <<"index">>
                 ELSE <<>>
        built == build_toc(env, named, 1)
    IN  IF named = <<>>
        THEN [raised |-> FALSE, toc |-> [kind |-> "None", entries |-> <<>>]]
        ELSE [raised |-> built.raised,
              toc |-> [kind |-> "list", entries |-> built.toc]]

\* JSONBuilder.handle_finish(): the value it stores in globalcontext['toc'],
\* or raised when _build_toc raised.  The loop tries 'index', then root_doc,
\* and builds from the first that is a name with a title.
handle_finish(env) ==
    LET names == <<"index", env.root_doc>>
        titled == {i \in 1..2 : names[i] # ""
                                   /\ names[i] \in DOMAIN env.titles}
        name == names[CHOOSE i \in titled : \A j \in titled : i <= j]
        built == build_toc(env, <<name>>, 1)
    IN  IF titled = {}
        THEN [raised |-> FALSE, toc |-> [kind |-> "None", entries |-> <<>>]]
        ELSE [raised |-> built.raised,
              toc |-> [kind |-> "list", entries |-> built.toc]]

-----------------------------------------------------------------------------
(* The inputs: docstrings and type expressions. *)

\* 'dict', as in the Context: and Type: sections of the tests.
BareDict == <<"d", "i", "c", "t">>

\* Lines of a returns-like section: a bare type, one with its colon, one
\* with trailing whitespace, one with a description, and an empty line.
ReturnsPool ==
    {BareDict, BareDict \o <<":">>, BareDict \o <<" ">>,
     BareDict \o <<":", " ", "e">>, <<>>}

ReturnsBodies == UNION {[1..n -> ReturnsPool] : n \in 0..MaxLines}

\* Lines of a version-info section: a version with and without colon and
\* surrounding whitespace, body text at two depths, an empty line and a
\* line of whitespace.
AdmonitionPool ==
    {<<"2", ".", "0">>, <<"2", ".", "0", ":">>, <<" ", "2", ".", "0", ":", " ">>, <<" ", "t">>, <<" ", " ", "u">>, <<" ">>,
     <<>>}

AdmonitionBodies == UNION {[1..n -> AdmonitionPool] : n \in 0..MaxLines}

\* 'deprecated' and 'versionadded'
AdmonitionNames ==
    {<<"d", "e", "p", "r", "e", "c", "a", "t", "e", "d">>,
     <<"v", "e", "r", "s", "i", "o", "n", "a", "d", "d", "e", "d">>}

\* An unclosed header: name, "(", the start of a type.
OpenHdr == <<"a", " ", "(", "b">>

\* An unclosed header whose fragment ends with a dot.
OpenHdrDot == <<"a", " ", "(", "b", ".">>

\* An unclosed header whose fragment ends with a comma.
OpenHdrComma == <<"a", " ", "(", "b", ",">>

\* A complete header name (type):
ClosedHdr == <<"a", " ", "(", "b", ")", ":">>

\* Indented continuations: a dotted one that closes, a plain one that
\* closes, a dotted one that ends with a comma.
DotClose == <<" ", ".", "c", ")", ":">>

PlainClose == <<" ", "c", ")", ":">>

DotComma == <<" ", ".", "c", ",">>

\* An indented line of description, and an empty line.
TextLine == <<" ", "d">>

BlankLine == <<>>

LinePool ==
    {OpenHdr, OpenHdrDot, OpenHdrComma, ClosedHdr, DotClose, PlainClose,
     DotComma, TextLine, BlankLine}

\* The arg2 field of test_args_section, with its description line.
ArgsSectionField ==
    <<<<" ", " ", " ", "a", "r", "g", "2", " ", "(", "f", "o", "o", ".", "b", "a", "r", ".", "a", "b", "c">>,
      <<" ", " ", " ", " ", " ", " ", " ", " ", " ", ".", "d", "e", "f", ".", "g", "h", "i", ",">>,
      <<" ", " ", " ", " ", " ", " ", " ", " ", " ", "o", "p", "t", "i", "o", "n", "a", "l", ")", ":">>,
      <<" ", " ", " ", " ", " ", " ", " ", "D", "e", "s", "c", "r", "i", "p", "t", "i", "o", "n", " ", "o", "f", " ", "a", "r", "g", "2", ".">>>>

\* The same field wrapped over two lines only.
TwoLineField ==
    <<<<" ", " ", " ", "a", "r", "g", "2", " ", "(", "f", "o", "o", ".", "b", "a", "r", ".", "a", "b", "c">>,
      <<" ", " ", " ", " ", " ", " ", " ", " ", " ", ".", "d", "e", "f", ".", "g", "h", "i", ",", " ", "o", "p", "t", "i", "o", "n", "a", "l", ")", ":">>,
      <<" ", " ", " ", " ", " ", " ", " ", "D", "e", "s", "c", "r", "i", "p", "t", "i", "o", "n", " ", "o", "f", " ", "a", "r", "g", "2", ".">>>>

Docstrings ==
    UNION {[1..n -> LinePool] : n \in 0..MaxLines}
        \cup {ArgsSectionField, TwoLineField}

\* The lines the buffer operations are exercised with.
BufferPool == {OpenHdr, TextLine}

Buffers == UNION {[1..n -> BufferPool] : n \in 0..MaxLines}

\* No buffer operation has been called yet.
NoCall == [name |-> "", n |-> 0, line |-> <<>>, ret |-> <<>>]

\* A keyword a subclass adds to extra_fields_sections, spelled as its
\* header is: 'Key'.
KwKeyCapital == <<"K", "e", "y">>

\* The fields sections a subclass appends to extra_fields_sections.
SubclassFields ==
    {<<>>, <<[keyword |-> KwKeyCapital, label |-> KwKeyCapital]>>}

\* Header lines the parse meets, without their colon: 'keys' in three
\* spellings, its prefix 'key' and 'Key', and the superstring 'keyss'.
Headers ==
    {<<"k", "e", "y", "s">>, <<"K", "e", "y", "s">>, <<"K", "E", "Y", "S">>,
     <<"k", "e", "y">>, <<"K", "e", "y">>, <<"k", "e", "y", "s", "s">>}

\* What a caller registers on the constructed parser: a keyword of the
\* parent's grammar and one of the built-in sections.
CallerKeywords == {KwReturns, <<"k", "e", "y", "s">>}

CallerLabel == <<"X">>

\* No registration has been made yet.
NoRegistration == [keyword |-> <<>>, strategy |-> NoStrategy]

\* An autodoc_excludes table of conf.py: d, s and c hold the value of the
\* '__defaults__', '*' and 'class' key (a boolean and two lists of names),
\* or nothing when the key is absent.
Config(d, s, c) ==
    [k \in (IF d # <<>> THEN {"__defaults__"} ELSE {})
            \cup (IF s # <<>> THEN {"*"} ELSE {})
            \cup (IF c # <<>> THEN {"class"} ELSE {}) |->
        CASE k = "__defaults__" -> d[1]
          [] k = "*" -> s[1]
          [] OTHER -> c[1]]

\* The tables autodoc_excludes starts as; Config(<<TRUE>>, <<>>, <<>>) is
\* the default.
Configs ==
    {Config(d, s, c) : d \in {<<>>, <<TRUE>>, <<FALSE>>},
                       s \in {<<>>, <<<<"foo">>>>},
                       c \in {<<>>, <<<<"foo">>>>, <<<<"bar", "bar">>>>}}

\* The what and name arguments of autodoc-skip-member.
Whats == {"class", "module"}

Names == {"__dict__", "__annotations__", "foo", "bar"}

\* The module being documented, if any, with its __autodoc_excludes__ and
\* __deprecated__.
Modules ==
    [documented : BOOLEAN, autodoc_excludes : {{}, {"foo"}},
     deprecated : {{}, {"bar"}}]

\* No autodoc-skip-member event yet.
NoMember ==
    [what |-> "", name |-> "", skip |-> FALSE,
     module |-> [documented |-> FALSE, autodoc_excludes |-> {},
                 deprecated |-> {}]]

\* testdata/github_linkcode_module.py, as ast.parse sees it.
TestModuleTree ==
    <<OtherNode(2),
      DefNode(<<"C", "l", "a", "s", "s", "A">>, <<OtherNode(6)>>, 5),
      DefNode(<<"C", "l", "a", "s", "s", "B">>,
              <<OtherNode(10),
                AssignNode({<<"m", "y", "_", "v", "a", "r">>}, 12),
                DefNode(<<"_", "_", "i", "n", "i", "t", "_", "_">>,
                        <<OtherNode(15)>>, 14),
                DefNode(<<"d", "o", "_", "t", "h", "i", "n", "g">>,
                        <<OtherNode(18)>>, 17)>>,
              9),
      DefNode(<<"m", "y", "_", "f", "u", "n", "c">>, <<OtherNode(22)>>, 21),
      AssignNode({<<"m", "y", "_", "v", "a", "r">>}, 25),
      AssignNode({<<"M", "y", "N", "a", "m", "e", "d", "T", "u", "p", "l", "e">>},
                 27)>>

\* The fullname values the tests resolve in it.
TestFullnames ==
    {<<"C", "l", "a", "s", "s", "B">>,
     <<"m", "y", "_", "f", "u", "n", "c">>,
     <<"C", "l", "a", "s", "s", "B", ".", "m", "y", "_", "v", "a", "r">>,
     <<"m", "y", "_", "v", "a", "r">>,
     <<"C", "l", "a", "s", "s", "B", ".", "d", "o", "_", "t", "h", "i", "n", "g">>,
     <<"M", "y", "N", "a", "m", "e", "d", "T", "u", "p", "l", "e", ".", "_", "_", "m", "a", "t", "c", "h", "_", "a", "r", "g", "s", "_", "_">>,
     <<"C", "l", "a", "s", "s", "B", ".", "i", "n", "v", "a", "l", "i", "d", "_", "f", "u", "n", "c", "t", "i", "o", "n">>}

\* Top-level statements of a generated module, on line 0: assignments to v
\* and to B, a class B with and without an attribute v, a function v, and
\* a statement that binds nothing.
NodeShapes ==
    {AssignNode({<<"v">>}, 0), AssignNode({<<"B">>}, 0),
     DefNode(<<"B">>, <<AssignNode({<<"v">>}, 0)>>, 0),
     DefNode(<<"B">>, <<>>, 0), DefNode(<<"v">>, <<>>, 0), OtherNode(0)}

\* The generated modules: up to MaxNodes statements in any order, the
\* lines of the i-th one numbered from 10 * i.
GeneratedTrees ==
    UNION {{[i \in 1..n |->
                [shapes[i] EXCEPT
                    !.lineno = 10 * i,
                    !.body = [j \in 1..Len(shapes[i].body) |->
                                 [shapes[i].body[j] EXCEPT
                                     !.lineno = 10 * i + j]]]] :
               shapes \in [1..n -> NodeShapes]} : n \in 0..MaxNodes}

\* The fullname values resolved in them: v, B, B.v, B.B, B.v.w and C.v
GeneratedFullnames ==
    {<<"v">>, <<"B">>, <<"B", ".", "v">>, <<"B", ".", "B">>,
     <<"B", ".", "v", ".", "w">>, <<"C", ".", "v">>}

\* Lines of git branch -rv --contains: two branches of the remote at two
\* distances, the HEAD of the remote, its symbolic HEAD line (whose second
\* column is an arrow) and a branch of another remote.
BranchLines ==
    {[ref_name |-> <<"o", "r", "i", "g", "i", "n", "/", "a">>,
      sha |-> <<"a", "1">>, distance |-> 1],
     [ref_name |-> <<"o", "r", "i", "g", "i", "n", "/", "a">>,
      sha |-> <<"a", "2">>, distance |-> 2],
     [ref_name |-> <<"o", "r", "i", "g", "i", "n", "/", "b">>,
      sha |-> <<"b", "1">>, distance |-> 1],
     [ref_name |-> <<"o", "r", "i", "g", "i", "n", "/", "b">>,
      sha |-> <<"b", "2">>, distance |-> 2],
     [ref_name |-> <<"o", "r", "i", "g", "i", "n", "/", "H", "E", "A", "D">>,
      sha |-> <<"a", "0">>, distance |-> 0],
     [ref_name |-> <<"o", "r", "i", "g", "i", "n", "/", "H", "E", "A", "D">>,
      sha |-> <<"-", ">">>, distance |-> 0],
     [ref_name |-> <<"o", "t", "h", "e", "r", "/", "a">>,
      sha |-> <<"c", "0">>, distance |-> 0]}

Listings == UNION {[1..n -> BranchLines] : n \in 0..MaxRefs}

\* The states of the repository a resolve meets: two candidate refs and a
\* rev-parse that prints one of two SHAs or fails, a failing git branch, and
\* a listing without a candidate.
GitStates ==
    LET two == <<[ref_name |-> <<"o", "r", "i", "g", "i", "n", "/", "H", "E", "A", "D">>,
                  sha |-> <<"a", "0">>, distance |-> 0],
                 [ref_name |-> <<"o", "r", "i", "g", "i", "n", "/", "a">>,
                  sha |-> <<"a", "2">>, distance |-> 2],
                 [ref_name |-> <<"o", "r", "i", "g", "i", "n", "/", "b">>,
                  sha |-> <<"b", "1">>, distance |-> 1]>>
    IN  {[listing |-> two, fails |-> "", rev_parse |-> "sha1"],
         [listing |-> two, fails |-> "", rev_parse |-> "sha2"],
         [listing |-> two, fails |-> "rev-parse", rev_parse |-> ""],
         [listing |-> two, fails |-> "branch", rev_parse |-> "sha1"],
         [listing |-> <<>>, fails |-> "", rev_parse |-> "sha1"]}

\* The calls of github_linkcode_resolve: (domain, info['module'],
\* info['fullname'], allowed_module_names).
ResolveCalls ==
    {<<"c", <<"a">>, <<"v">>, {}>>,
     <<"py", <<>>, <<"v">>, {}>>,
     <<"py", <<"a">>, <<"v">>, {<<"b">>}>>,
     <<"py", <<"g", "o", "n", "e">>, <<"v">>, {}>>,
     <<"py", <<"b", "a", "d">>, <<"v">>, {}>>,
     <<"py", <<"a">>, <<"w">>, {}>>,
     <<"py", <<"a">>, <<"v">>, {}>>,
     <<"py", <<"b", ".", "c">>, <<"B", ".", "v">>, {<<"b">>}>>}

\* The environment of a build in which the documents docs exist, each with
\* its title (the title of top has two children).
Environment(docs, includes, root_doc) ==
    [titles |-> [d \in docs |->
                    IF d = "index" THEN <<"Top Page">>
                    ELSE IF d = "top" THEN <<"Contents", " page">>
                    ELSE <<"Page 1">>],
     toctree_includes |-> includes,
     root_doc |-> root_doc]

\* The toctrees of the documents docs: each lists up to MaxChildren of them,
\* cycles included.
Toctrees(docs) == [docs -> UNION {[1..n -> docs] : n \in 0..MaxChildren}]

\* No call into the github module yet.
NoRequest == [fn |-> ""]

ListTok == <<"l", "i", "s", "t">>

IntTok == <<"i", "n", "t">>

NameTok == <<"x">>

LIST_REF == <<"L", "I", "S", "T", "_", "R", "E", "F">>

INT_REF == <<"I", "N", "T", "_", "R", "E", "F">>

OF_REF == <<"O", "F", "_", "R", "E", "F">>

\* napoleon_type_aliases: unset (None or {}), or a table that also holds an
\* entry for the connector word "of".
NoAliases == [t \in {} |-> <<>>]

SomeAliases == (ListTok :> LIST_REF) @@ (IntTok :> INT_REF) @@ (OfTok :> OF_REF)

AliasTables == {NoAliases, SomeAliases}

TokenPool == {ListTok, IntTok, OfTok, OrTok, NoneTok, NameTok, <<>>}

\* Primary clauses: tokens separated by single spaces; an empty token
\* stands for a doubled, leading or trailing space.
Primaries ==
    {JoinSeq(t, <<" ">>) :
        t \in UNION {[1..n -> TokenPool] : n \in 1..MaxTokens}}

SuffixPool ==
    {<<>>, <<",", " ", "o", "p", "t", "i", "o", "n", "a", "l">>, <<",", "o", "p", "t", "i", "o", "n", "a", "l", " ">>,
     <<",", " ", " ", "o", "p", "t", "i", "o", "n", "a", "l", ",", "x">>}

\* 'dict, optional', the type of test_keys.
DictOptional == <<"d", "i", "c", "t", ",", " ", "o", "p", "t", "i", "o", "n", "a", "l">>

TypeInputs ==
    {p \o sfx : p \in Primaries, sfx \in SuffixPool} \cup {DictOptional}

-----------------------------------------------------------------------------
(* The parser. *)

\* Outside the constructor's scenario the registry plays no part.
RegistryIdle ==
    /\ sections = EmptyRegistry
    /\ todo = <<>>
    /\ header = <<>>

\* Outside the configuration's scenario the configuration is the default
\* one, after config-inited.
ConfigIdle == autodoc_excludes = on_config_inited(DefaultConfig)

\* Where no docstring is parsed, no parser constructed and nothing
\* configured.
Quiet ==
    /\ lines = <<>>
    /\ aliases = NoAliases
    /\ type_str = <<>>
    /\ section = ""
    /\ admonition = <<>>
    /\ require_type = FALSE
    /\ RegistryIdle
    /\ ConfigIdle

\* A parser is constructed either over a docstring whose fields are about
\* to be consumed, or at a call of make_type_reference with a type
\* expression that did not come from a field (a returns-like section).
Init ==
    /\ parse_type = TRUE
    /\ orig = <<>>
    /\ rebuilt = FALSE
    /\ result = <<>>
    /\ nscanned = 0
    /\ type_ref = <<>>
    /\ exc = ""
    /\ out = <<>>
    /\ call = NoCall
    /\ prev_call = NoCall
    /\ buf_before = <<>>
    /\ dispatched = NoStrategy
    /\ parse_count = 0
    /\ parsed_with = EmptyRegistry
    /\ last_reg = NoRegistration
    /\ latest = EmptyRegistry
    /\ sections_before = EmptyRegistry
    /\ member = NoMember
    /\ skipped = FALSE
    /\ ast_cache = <<>>
    /\ head_ref = ""
    /\ outcome = [node |-> NoNode]
    /\ cache_before = <<>>
    /\ head_before = ""
    /\ globalcontext = [toc |-> [kind |-> "absent", entries |-> <<>>]]
    /\ \/ /\ pc = "field"
          /\ lines \in Docstrings
          /\ aliases \in AliasTables
          /\ type_str = <<>>
          /\ section = "fields"
          /\ admonition = <<>>
          /\ require_type = FALSE
          /\ RegistryIdle
          /\ request = NoRequest
          /\ ConfigIdle
       \/ /\ pc = "ref"
          /\ lines = <<>>
          /\ aliases \in AliasTables
          /\ type_str \in TypeInputs
          /\ section = "fields"
          /\ admonition = <<>>
          /\ require_type = FALSE
          /\ RegistryIdle
          /\ request = NoRequest
          /\ ConfigIdle
       \/ /\ pc = "admonition"
          /\ lines \in AdmonitionBodies
          /\ aliases = NoAliases
          /\ type_str = <<>>
          /\ section = "version_info"
          /\ admonition \in AdmonitionNames
          /\ require_type = FALSE
          /\ RegistryIdle
          /\ request = NoRequest
          /\ ConfigIdle
       \/ /\ pc = "returns"
          /\ lines \in ReturnsBodies
          /\ aliases = NoAliases
          /\ type_str = <<>>
          /\ section = "returns"
          /\ admonition = <<>>
          /\ require_type \in BOOLEAN
          /\ RegistryIdle
          /\ request = NoRequest
          /\ ConfigIdle
       \/ /\ pc = "buffer"
          /\ lines \in Buffers
          /\ aliases = NoAliases
          /\ type_str = <<>>
          /\ section = ""
          /\ admonition = <<>>
          /\ require_type = FALSE
          /\ RegistryIdle
          /\ request = NoRequest
          /\ ConfigIdle
       \/ /\ pc = "super_init"
          /\ lines = <<>>
          /\ aliases = NoAliases
          /\ type_str = <<>>
          /\ section = ""
          /\ admonition = <<>>
          /\ require_type = FALSE
          /\ sections = EmptyRegistry
          /\ header \in Headers
          /\ request = NoRequest
          /\ \E subclass_fields \in SubclassFields :
                 todo = Registrations(subclass_fields)
          /\ ConfigIdle
       \/ /\ pc = "config"
          /\ lines = <<>>
          /\ aliases = NoAliases
          /\ type_str = <<>>
          /\ section = ""
          /\ admonition = <<>>
          /\ require_type = FALSE
          /\ RegistryIdle
          /\ request = NoRequest
          /\ autodoc_excludes \in Configs
       \/ /\ pc = "ast"
          /\ Quiet
          /\ \E tree \in GeneratedTrees, fullname \in GeneratedFullnames :
                 request = [fn |-> "_find_path_in_ast_nodes", nodes |-> tree,
                            path |-> SplitOn(fullname, ".")]
       \/ /\ pc = "finish"
          /\ Quiet
          /\ \E docs \in SUBSET {"index", "top", "a"},
                root_doc \in {"top", ""} :
                 \E includes \in Toctrees(docs) :
                     request = [fn |-> "handle_finish",
                                env |-> Environment(docs, includes,
                                                    root_doc)]
       \/ /\ pc = "resolve"
          /\ Quiet
          /\ request = NoRequest
       \/ /\ pc = "nearest"
          /\ Quiet
          /\ \E listing \in Listings,
                fails \in {"", "fetch", "branch", "log"} :
                 request = [fn |-> "_git_get_nearest_tracking_branch",
                            git |-> [listing |-> listing, fails |-> fails,
                                     rev_parse |-> ""]]
       \/ /\ pc = "ast"
          /\ Quiet
          /\ \E fullname \in TestFullnames :
                 request = [fn |-> "_find_path_in_ast_nodes",
                            nodes |-> TestModuleTree,
                            path |-> SplitOn(fullname, ".")]
    /\ user_excludes = autodoc_excludes

\* _consume_field, parse_type true, up to the call of the parent's method:
\* the peek of the first line, the lookahead, the reassembly and the splice.
\* Matching the start pattern against the end marker (an exhausted buffer)
\* raises TypeError.
ConsumeFieldScan ==
    /\ pc = "field"
    /\ parse_type' = TRUE
    /\ orig' = lines
    /\ LET first == peek_lines(lines, 1)[1]
       IN  IF ~IsStr(first)
           THEN /\ pc' = "raised"
                /\ exc' = "TypeError"
                /\ UNCHANGED lines
                /\ rebuilt' = FALSE
                /\ result' = <<>>
                /\ nscanned' = 0
           ELSE LET n == IF StartMatch(first) THEN Scan(lines, 1) ELSE 0
                    res == IF n > 0
                           THEN Reassemble(peek_lines(lines, n))
                           ELSE <<>>
                IN  /\ pc' = "super"
                    /\ UNCHANGED exc
                    /\ result' = res
                    /\ IF res # <<>>
                       THEN /\ lines' = queue_line(consume_lines(lines, n), res)
                            /\ rebuilt' = TRUE
                            /\ nscanned' = n
                       ELSE /\ UNCHANGED lines
                            /\ rebuilt' = FALSE
                            /\ nscanned' = 0
    /\ UNCHANGED <<aliases, type_str, type_ref, beyondFields>>

\* _consume_field, parse_type false: nothing is peeked.
ConsumeFieldNoType ==
    /\ pc = "field"
    /\ parse_type' = FALSE
    /\ orig' = lines
    /\ pc' = "super"
    /\ rebuilt' = FALSE
    /\ result' = <<>>
    /\ nscanned' = 0
    /\ UNCHANGED <<lines, aliases, type_str, type_ref, exc, beyondFields>>

\* super()._consume_field(parse_type): the next line is taken (StopIteration
\* on an exhausted buffer), its type read, its description block consumed.
SuperConsumeField ==
    /\ pc = "super"
    /\ IF lines = <<>>
       THEN /\ pc' = "raised"
            /\ exc' = "StopIteration"
            /\ UNCHANGED <<lines, type_str>>
       ELSE LET line == Head(lines)
                rest == Tail(lines)
            IN  /\ pc' = "ref"
                /\ UNCHANGED exc
                /\ type_str' = IF parse_type
                               THEN TypedArgType(BeforeColon(line))
                               ELSE <<>>
                /\ lines' = consume_lines(
                                rest, BlockLen(rest, GetIndent(line) + 1))
    /\ UNCHANGED <<aliases, parse_type, orig, rebuilt, result, nscanned,
                   type_ref, beyondFields>>

\* return (name, self.make_type_reference(type_str), desc); the caller's
\* loop then asks for the next field while lines remain.
MakeTypeReference ==
    /\ pc = "ref"
    /\ type_ref' = make_type_reference(type_str, aliases)
    /\ pc' = IF lines # <<>> THEN "field" ELSE "done"
    /\ UNCHANGED <<lines, aliases, parse_type, orig, rebuilt, result,
                   nscanned, type_str, exc, beyondFields>>

\* A version-info section: self._format_admonition_with_params(admonition,
\* self._consume_to_next_section()), the section being the rest of the
\* docstring.
FormatAdmonition ==
    /\ pc = "admonition"
    /\ orig' = lines
    /\ out' = format_admonition_with_params(admonition, lines)
    /\ lines' = <<>>
    /\ pc' = "done"
    /\ UNCHANGED <<aliases, parse_type, rebuilt, result, nscanned,
                   type_str, type_ref, exc, section, admonition,
                   require_type, otherVars>>

\* _consume_returns_section up to the call of the parent's method: with
\* require_type the first line is peeked and given its colon.  On an
\* exhausted buffer the peeked element is the end marker, which has no
\* rstrip: AttributeError.
ConsumeReturnsSection ==
    /\ pc = "returns"
    /\ orig' = lines
    /\ IF require_type /\ ~IsStr(peek_lines(lines, 1)[1])
       THEN /\ pc' = "raised"
            /\ exc' = "AttributeError"
            /\ UNCHANGED lines
       ELSE /\ pc' = "super_returns"
            /\ lines' = IF require_type THEN ensure_type_line(lines)
                                        ELSE lines
            /\ UNCHANGED exc
    /\ UNCHANGED <<aliases, parse_type, rebuilt, result, nscanned,
                   type_str, type_ref, section, admonition, require_type,
                   out, otherVars>>

\* nodes = super()._consume_returns_section(): the section is the rest of
\* the docstring.  Without a node the comprehension that calls
\* make_type_reference has nothing to do.
SuperConsumeReturnsSection ==
    /\ pc = "super_returns"
    /\ LET body == returns_body(lines)
       IN  IF body = <<>>
           THEN /\ pc' = "done"
                /\ UNCHANGED <<type_str, out>>
           ELSE /\ pc' = "ref"
                /\ type_str' = returns_type(body)
                /\ out' = returns_desc(body)
    /\ lines' = <<>>
    /\ UNCHANGED <<aliases, parse_type, orig, rebuilt, result, nscanned,
                   type_ref, exc, section, admonition, require_type,
                   otherVars>>

\* What the section strategies work on and return, the buffer apart.
parseVars ==
    <<aliases, parse_type, orig, rebuilt, result, nscanned, type_str,
      type_ref, secVars>>

\* The variables the buffer operations leave alone.
beyondBuffer == <<parseVars, regVars, cfgVars, extVars>>

\* peek_lines(num_lines), called by a strategy between its other steps.
PeekLines ==
    /\ pc = "buffer"
    /\ \E n \in 1..MaxPeek :
           call' = [name |-> "peek_lines", n |-> n, line |-> <<>>,
                    ret |-> peek_lines(lines, n)]
    /\ prev_call' = call
    /\ buf_before' = lines
    /\ UNCHANGED <<lines, pc, exc, beyondBuffer>>

\* queue_line(line)
QueueLine ==
    /\ pc = "buffer"
    /\ Len(lines) < MaxLines
    /\ \E x \in BufferPool :
           /\ call' = [name |-> "queue_line", n |-> 0, line |-> x,
                       ret |-> <<>>]
           /\ lines' = queue_line(lines, x)
    /\ prev_call' = call
    /\ buf_before' = lines
    /\ UNCHANGED <<pc, exc, beyondBuffer>>

\* consume_lines(num_lines): popleft() on an empty deque raises IndexError,
\* after the lines that were there have been popped.
ConsumeLines ==
    /\ pc = "buffer"
    /\ \E n \in 1..MaxPeek :
           /\ call' = [name |-> "consume_lines", n |-> n, line |-> <<>>,
                       ret |-> <<>>]
           /\ lines' = consume_lines(lines, n)
           /\ IF n > Len(lines)
              THEN pc' = "raised" /\ exc' = "IndexError"
              ELSE UNCHANGED <<pc, exc>>
    /\ prev_call' = call
    /\ buf_before' = lines
    /\ UNCHANGED beyondBuffer

\* The variables the constructor and the register_* methods leave alone.
beyondRegistry ==
    <<lines, pc, exc, parseVars, bufVars, cfgVars, extVars>>

\* _parse(parse) on the registry secs: the parent's _parse, when it runs,
\* looks the header up.
Parse(parse, secs) ==
    IF parse_runs(parse)
    THEN /\ parse_count' = parse_count + 1
         /\ parsed_with' = secs
         /\ dispatched' = Dispatch(secs, header)
    ELSE UNCHANGED <<parse_count, parsed_with, dispatched>>

\* super().__init__(): the parent fills the registry with its grammar and
\* ends with self._parse(), which is the overridden method without its
\* argument.
SuperInit ==
    /\ pc = "super_init"
    /\ pc' = "registering"
    /\ sections' = BaseSections
    /\ Parse(FALSE, BaseSections)
    /\ UNCHANGED <<todo, header, last_reg, latest, sections_before, lines,
                   exc, parseVars, bufVars, cfgVars, extVars>>

\* One registration: self._sections[keyword] = strategy
Register(keyword, strategy) ==
    /\ sections' = SetItem(sections, keyword, strategy)
    /\ last_reg' = [keyword |-> keyword, strategy |-> strategy]
    /\ latest' = [k \in DOMAIN latest \cup {keyword} |->
                      IF k = keyword THEN strategy ELSE latest[k]]
    /\ sections_before' = sections
    /\ UNCHANGED <<header, dispatched, parse_count, parsed_with,
                   beyondRegistry>>

\* The next registration of __init__ is of this kind.
Pending(kind) ==
    /\ pc = "registering"
    /\ todo # <<>>
    /\ Head(todo).strategy.kind = kind

\* register_returns_section(keyword, label, options), called by __init__
\* for the next entry of its list, or by a caller on the constructed parser.
RegisterReturnsSection ==
    \/ /\ Pending("returns")
       /\ Register(Head(todo).keyword, Head(todo).strategy)
       /\ todo' = Tail(todo)
    \/ /\ pc = "constructed"
       /\ \E keyword \in CallerKeywords, options \in BOOLEAN :
              Register(keyword, ReturnsStrategy(CallerLabel, options))
       /\ UNCHANGED todo

\* register_fields_section(keyword, label)
RegisterFieldsSection ==
    \/ /\ Pending("fields")
       /\ Register(Head(todo).keyword, Head(todo).strategy)
       /\ todo' = Tail(todo)
    \/ /\ pc = "constructed"
       /\ \E keyword \in CallerKeywords :
              Register(keyword, FieldsStrategy(CallerLabel))
       /\ UNCHANGED todo

\* register_version_info_section(keyword, admonition)
RegisterVersionInfoSection ==
    \/ /\ Pending("version_info")
       /\ Register(Head(todo).keyword, Head(todo).strategy)
       /\ todo' = Tail(todo)
    \/ /\ pc = "constructed"
       /\ \E keyword \in CallerKeywords :
              Register(keyword, VersionInfoStrategy(CallerLabel))
       /\ UNCHANGED todo

\* self._parse(True), the last statement of __init__.
FinalParse ==
    /\ pc = "registering"
    /\ todo = <<>>
    /\ pc' = "constructed"
    /\ Parse(TRUE, sections)
    /\ UNCHANGED <<sections, todo, header, last_reg, latest, sections_before,
                   lines, exc, parseVars, bufVars, cfgVars, extVars>>

\* The variables the configuration handlers leave alone.
beyondConfig == <<lines, exc, parseVars, bufVars, regVars, extVars>>

\* The config-inited event: _on_config_inited replaces autodoc_excludes.
OnConfigInited ==
    /\ pc = "config"
    /\ pc' = "configured"
    /\ autodoc_excludes' = on_config_inited(autodoc_excludes)
    /\ UNCHANGED <<user_excludes, member, skipped, beyondConfig>>

\* An autodoc-skip-member event: _filter_members(app, what, name, obj,
\* skip, options), module being what env.temp_data['autodoc:module'] names.
FilterMembers ==
    /\ pc = "configured"
    /\ \E what \in Whats, name \in Names, skip \in BOOLEAN,
          module \in Modules :
           /\ member' = [what |-> what, name |-> name, skip |-> skip,
                         module |-> module]
           /\ skipped' = filter_members(module, autodoc_excludes, what,
                                        name, skip)
    /\ UNCHANGED <<pc, autodoc_excludes, user_excludes, beyondConfig>>

\* The variables the github module leaves alone.
beyondGithub ==
    <<lines, exc, parseVars, bufVars, regVars, cfgVars>>

\* _find_path_in_ast_nodes(nodes, path), called on its own.
FindPathInAstNodes ==
    /\ pc = "ast"
    /\ pc' = "done"
    /\ outcome' = [node |-> find_path_in_ast_nodes(request.nodes,
                                                    request.path)]
    /\ UNCHANGED <<ast_cache, head_ref, request, cache_before, head_before,
                   globalcontext,
                   beyondGithub>>

\* _git_get_nearest_tracking_branch(merge_base), called on its own.
GitGetNearestTrackingBranch ==
    /\ pc = "nearest"
    /\ pc' = "done"
    /\ outcome' = git_get_nearest_tracking_branch(request.git)
    /\ UNCHANGED <<ast_cache, head_ref, request, cache_before, head_before,
                   globalcontext,
                   beyondGithub>>

\* github_linkcode_resolve(domain, info, ..., branch, ...), with the caches
\* as the call found them kept in cache_before and head_before.
GithubLinkcodeResolve ==
    /\ pc = "resolve"
    /\ \E args \in ResolveCalls, git \in GitStates :
           LET req == [fn |-> "github_linkcode_resolve", domain |-> args[1],
                       module |-> args[2], fullname |-> args[3],
                       allowed_module_names |-> args[4], branch |-> "main",
                       git |-> git]
           IN  /\ request' = req
               /\ outcome' = github_linkcode_resolve(req, ast_cache, head_ref)
               /\ ast_cache' = outcome'.cache
               /\ head_ref' = outcome'.head_ref
    /\ cache_before' = ast_cache
    /\ head_before' = head_ref
    /\ UNCHANGED <<pc, globalcontext, beyondGithub>>

\* clear_github_linkcode_caches()
ClearGithubLinkcodeCaches ==
    /\ pc = "resolve"
    /\ request' = [fn |-> "clear_github_linkcode_caches"]
    /\ outcome' = [returns |-> "None"]
    /\ ast_cache' = <<>>
    /\ head_ref' = ""
    /\ cache_before' = ast_cache
    /\ head_before' = head_ref
    /\ UNCHANGED <<pc, globalcontext, beyondGithub>>

\* JSONBuilder.handle_finish(), up to the call of the inherited method.
HandleFinish ==
    /\ pc = "finish"
    /\ pc' = "done"
    /\ LET finished == handle_finish(request.env)
       IN  IF finished.raised
           THEN exc' = "RecursionError" /\ UNCHANGED globalcontext
           ELSE exc' = exc /\ globalcontext' = [toc |-> finished.toc]
    /\ UNCHANGED <<lines, parseVars, bufVars, regVars, cfgVars, ast_cache,
                   head_ref, request, outcome, cache_before, head_before>>

Next ==
    \/ ConsumeFieldScan
    \/ ConsumeFieldNoType
    \/ SuperConsumeField
    \/ MakeTypeReference
    \/ FormatAdmonition
    \/ ConsumeReturnsSection
    \/ SuperConsumeReturnsSection
    \/ PeekLines
    \/ QueueLine
    \/ ConsumeLines
    \/ SuperInit
    \/ RegisterReturnsSection
    \/ RegisterFieldsSection
    \/ RegisterVersionInfoSection
    \/ FinalParse
    \/ OnConfigInited
    \/ FilterMembers
    \/ FindPathInAstNodes
    \/ GitGetNearestTrackingBranch
    \/ GithubLinkcodeResolve
    \/ ClearGithubLinkcodeCaches
    \/ HandleFinish

Spec == Init /\ [][Next]_vars

-----------------------------------------------------------------------------
(* Vocabulary of the properties. *)

\* _consume_field (parse_type true) has run up to the parent's call on a
\* buffer whose first line matched the start pattern.
AfterScan ==
    /\ pc = "super"
    /\ parse_type
    /\ orig # <<>>
    /\ StartMatch(orig[1])

\* Line k after the header is the first line that stops the lookahead, and
\* it is a closing line that does not itself open a field.
ClosesAt(buf, k) ==
    /\ k + 1 <= Len(buf)
    /\ EndMatch(buf[k + 1])
    /\ ~StartMatch(buf[k + 1])
    /\ \A j \in 1..(k - 1) : ~StartMatch(buf[j + 1]) /\ ~EndMatch(buf[j + 1])

\* Line k after the header is reached by the lookahead: no earlier line
\* stopped it.
Inspected(buf, k) ==
    /\ k + 1 <= Len(buf)
    /\ \A j \in 1..(k - 1) : ~StartMatch(buf[j + 1]) /\ ~EndMatch(buf[j + 1])

\* make_type_reference has returned type_ref for type_str.
Rendered == pc # "ref"

\* The type expression of the wrapped arg2 field, and its reassembled line.
Arg2Type == <<"f", "o", "o", ".", "b", "a", "r", ".", "a", "b", "c", ".", "d", "e", "f", ".", "g", "h", "i", ",", " ", "o", "p", "t", "i", "o", "n", "a", "l">>

Arg2Line == <<" ", " ", " ", "a", "r", "g", "2", " ", "(", "f", "o", "o", ".", "b", "a", "r", ".", "a", "b", "c", ".", "d", "e", "f", ".", "g", "h", "i", ",", " ", "o", "p", "t", "i", "o", "n", "a", "l", ")", ":">>

-----------------------------------------------------------------------------

\* C1: the header "arg2 (foo.bar.abc" wrapped over ".def.ghi," and
\* "optional):", or over the single line ".def.ghi, optional):", is spliced
\* back as one line whose type expression is exactly
\* "foo.bar.abc.def.ghi, optional".
C1_WrappedTypeReassembled ==
    (parse_type /\ orig \in {ArgsSectionField, TwoLineField})
        => /\ pc = "super" => rebuilt /\ Head(lines) = Arg2Line
           /\ pc = "ref" => type_str = Arg2Type

C1_Witness ==
    /\ pc = "ref"
    /\ parse_type
    /\ orig = ArgsSectionField
    /\ type_str = Arg2Type

\* C2 as stated: a closing line that is the 1st, 2nd or 3rd line after the
\* header (i up to MAX_PARTIAL_TYPED_ARG_LINES) triggers reassembly.
C2_CloseWithinThreeLines ==
    \A i \in 1..MAX_PARTIAL_TYPED_ARG_LINES :
        (AfterScan /\ ClosesAt(orig, i)) => rebuilt /\ nscanned = i + 1

\* C2 as amended: the lookahead inspects the 1st and 2nd line after the
\* header (i below MAX_PARTIAL_TYPED_ARG_LINES, the header being one of the
\* 3 lines); a closing line there triggers reassembly, and a field that
\* closes only on the 3rd line or later is not reassembled.
C2_CloseWithinTwoLines ==
    \A i \in 1..(MaxLines + 1) :
        (AfterScan /\ ClosesAt(orig, i))
            => IF i < MAX_PARTIAL_TYPED_ARG_LINES
               THEN rebuilt /\ nscanned = i + 1
               ELSE ~rebuilt /\ lines = orig

C2_Witness ==
    /\ AfterScan
    /\ ClosesAt(orig, MAX_PARTIAL_TYPED_ARG_LINES - 1)
    /\ rebuilt
    /\ nscanned = MAX_PARTIAL_TYPED_ARG_LINES

\* C3: when reconstruction does not succeed (no closing line among the
\* inspected lines, a new start line first, or the end marker), the buffer
\* is exactly as before, nothing is raised, and the parent's parser gets the
\* original first line.
C3_FailedScanLeavesBuffer ==
    /\ (AfterScan /\ ~(\E k \in ScanRange : ClosesAt(orig, k)))
           => lines = orig /\ Head(lines) = orig[1] /\ ~rebuilt
    /\ (pc = "raised" /\ parse_type) => orig = <<>>

C3_Witness ==
    /\ AfterScan
    /\ Len(orig) = MaxLines
    /\ StartMatch(orig[2])
    /\ ClosesAt(Tail(orig), 1)
    /\ lines = orig

\* C4: a header that already ends with "):" is never merged with the lines
\* that follow it; the buffer is unmodified when the parent's parser runs.
C4_ClosedHeaderNeverMerged ==
    (pc = "super" /\ parse_type /\ orig # <<>> /\ EndMatch(orig[1]))
        => lines = orig

\* C5 as stated: every inspected line that matches the close pattern
\* triggers reassembly through that line.
C5_EveryCloseLineReassembles ==
    \A i \in ScanRange :
        (AfterScan /\ Inspected(orig, i) /\ EndMatch(orig[i + 1]))
            => rebuilt /\ nscanned = i + 1

\* C5 as amended: an inspected line that matches the close pattern and not
\* the start pattern triggers reassembly through that line; an inspected
\* line that matches the start pattern aborts, also when it matches the
\* close pattern too.
C5_CloseOnlyLineReassembles ==
    \A i \in ScanRange :
        (AfterScan /\ Inspected(orig, i))
            => /\ (EndMatch(orig[i + 1]) /\ ~StartMatch(orig[i + 1]))
                      => /\ rebuilt
                         /\ nscanned = i + 1
                         /\ Head(lines) = result
               /\ StartMatch(orig[i + 1]) => ~rebuilt /\ lines = orig

C5_Witness ==
    /\ AfterScan
    /\ Inspected(orig, 2)
    /\ StartMatch(orig[3])
    /\ EndMatch(orig[3])
    /\ lines = orig

\* The join C6 describes, from fragment k on: the header as it is, every
\* continuation without its surrounding whitespace, one space between two
\* fragments unless a dot is at the seam.
RECURSIVE ClaimedJoin(_, _)
ClaimedJoin(ls, k) ==
    IF k > Len(ls) THEN <<>>
    ELSE LET frag == IF k = 1 THEN ls[k] ELSE Strip(ls[k])
             seam == IF k = 1 THEN <<>>
                     ELSE IF StartsWith(frag, ".")
                             \/ EndsWith(Strip(ls[k - 1]), ".")
                     THEN <<>>
                     ELSE <<" ">>
         IN  seam \o frag \o ClaimedJoin(ls, k + 1)

\* C6: consecutive fragments of the reassembled line are joined by a single
\* space, or by nothing at a dot, and a continuation's leading indentation
\* does not appear in the result.
C6_FragmentsJoinedBySingleSpace ==
    (AfterScan /\ rebuilt
        /\ \A j \in 1..nscanned : Strip(orig[j]) # <<>>)
        => result = NormalizeCommas(ClaimedJoin(SubSeq(orig, 1, nscanned), 1))

\* C7: when the reassembled string holds a comma, every comma of the line
\* pushed back is followed by exactly one space and no further whitespace.
C7_CommaThenOneSpace ==
    (AfterScan /\ rebuilt)
        => LET l == Head(lines)
           IN  \A i \in 1..Len(l) :
                   l[i] = ","
                       => /\ i + 1 <= Len(l)
                          /\ l[i + 1] = " "
                          /\ i + 2 <= Len(l) => ~IsSpace(l[i + 2])

C7_Witness ==
    /\ AfterScan
    /\ rebuilt
    /\ orig[1] = OpenHdrComma
    /\ orig[2] = DotComma
    /\ orig[3] = PlainClose
    /\ Head(lines) = <<"a", " ", "(", "b", ",", " ", ".", "c", ",", " ", "c", ")", ":">>

\* C8: a reconstruction over the header and k continuation lines replaces
\* exactly those k + 1 lines by the one reassembled line; the lines from
\* position k + 1 on follow it unchanged and in order.
C8_SpliceReplacesScannedLines ==
    \A k \in 1..MaxLines :
        (AfterScan /\ rebuilt /\ ClosesAt(orig, k))
            => /\ Len(lines) = Len(orig) - k
               /\ Head(lines) = result
               /\ result = Reassemble(SubSeq(orig, 1, k + 1))
               /\ Tail(lines) = SubSeq(orig, k + 2, Len(orig))

C8_Witness ==
    /\ AfterScan
    /\ rebuilt
    /\ ClosesAt(orig, 2)
    /\ Len(orig) = 4
    /\ lines = <<result, orig[4]>>

\* What C9 says a token of the primary clause becomes.
ClaimedToken(tok) ==
    IF tok \in {OfTok, OrTok} THEN tok
    ELSE IF tok \in DOMAIN aliases THEN aliases[tok]
    ELSE IF tok = NoneTok THEN ObjNone
    ELSE ClassOpen \o tok \o <<Backtick>>

ListOfInt == <<"l", "i", "s", "t", " ", "o", "f", " ", "i", "n", "t">>

ListRefOfIntRef == <<"L", "I", "S", "T", "_", "R", "E", "F", " ", "o", "f", " ", "I", "N", "T", "_", "R", "E", "F">>

\* C9: in the primary clause "of" and "or" pass through verbatim, also when
\* the alias table has an entry for them; another token found in the table
\* becomes the alias's fragment; any other token becomes a class reference,
\* None an object reference.  "list of int" gives "LIST_REF of INT_REF".
C9_TokenMapping ==
    (Rendered /\ type_str # <<>>)
        => LET toks == SplitOn(SplitOn(type_str, ",")[1], " ")
               outs == SplitOn(SplitOn(type_ref, ",")[1], " ")
           IN  /\ Len(outs) = Len(toks)
               /\ \A i \in 1..Len(toks) : outs[i] = ClaimedToken(toks[i])
               /\ (type_str = ListOfInt /\ aliases = SomeAliases)
                      => type_ref = ListRefOfIntRef

C9_Witness ==
    /\ pc = "done"
    /\ aliases = SomeAliases
    /\ type_str = ListOfInt
    /\ type_ref = ListRefOfIntRef

\* C10: every cross-reference of the output wraps a non-empty token, the
\* rendered tokens are separated by exactly one space, and an empty input
\* is returned unchanged.
C10_ReferencesWrapTokens ==
    Rendered
        => /\ type_str = <<>> => type_ref = <<>>
           /\ \A i \in 1..(Len(type_ref) - 1) :
                  /\ ~(type_ref[i] = Backtick /\ type_ref[i + 1] = Backtick)
                  /\ ~(type_ref[i] = " " /\ type_ref[i + 1] = " ")

\* The rendering of 'dict, optional' without aliases.
DictOptionalRef ==
    ClassOpen \o <<"d", "i", "c", "t", Backtick>>
        \o <<",", " ", "*", "o", "p", "t", "i", "o", "n", "a", "l", "*">>

\* C11: the text before the first comma is the primary clause; every later
\* comma-separated part is stripped, wrapped in "*", prefixed with one space
\* and never cross-referenced; the clauses are joined with commas in order,
\* so their number is preserved.  'dict, optional' gives the reference for
\* dict followed by ', *optional*'.
C11_SuffixClauses ==
    (Rendered /\ type_str # <<>>)
        => LET parts == SplitOn(type_str, ",")
               outs == SplitOn(type_ref, ",")
           IN  /\ Len(outs) = Len(parts)
               /\ \A i \in 2..Len(parts) :
                      /\ outs[i] = <<" ", "*">> \o Strip(parts[i]) \o <<"*">>
                      /\ ~Contains(outs[i], Backtick)
               /\ (type_str = DictOptional /\ aliases = NoAliases)
                      => type_ref = DictOptionalRef

C11_Witness ==
    /\ pc = "done"
    /\ aliases = NoAliases
    /\ type_str = DictOptional
    /\ type_ref = DictOptionalRef

\* The lines of ls from the first to the last non-empty one, as C12 puts it.
ClaimedBody(ls) ==
    LET full == {i \in 1..Len(ls) : ls[i] # <<>>}
        lead == Cardinality({j \in 1..Len(ls) : \A a \in full : j < a})
        keep == {j \in 1..Len(ls) : /\ \E a \in full : a <= j
                                    /\ \E b \in full : b >= j}
    IN  [i \in 1..Cardinality(keep) |-> ls[i + lead]]

\* The common indentation of the non-empty lines among ls.
ClaimedCommonIndent(ls) ==
    LET ind == {GetIndent(ls[i]) : i \in {j \in 1..Len(ls) : ls[j] # <<>>}}
    IN  IF ind = {} THEN 0 ELSE CHOOSE m \in ind : \A n \in ind : m <= n

\* C12: leading and trailing blank (empty) lines are stripped first.  With
\* nothing left the result is exactly the bare directive and an empty line.
\* Otherwise it is the directive with the first remaining line as parameter
\* (stripped of whitespace and of one trailing colon), an empty line, every
\* further line dedented by the common indentation and prefixed with exactly
\* 3 spaces, in order, and a final empty line.
C12_AdmonitionLayout ==
    (pc = "done" /\ admonition # <<>>)
        => LET body == ClaimedBody(orig)
               rest == Tail(body)
               common == ClaimedCommonIndent(rest)
               param == Strip(body[1])
           IN  IF body = <<>>
               THEN out = <<<<".", ".", " ">> \o admonition \o <<":", ":">>,
                            <<>>>>
               ELSE /\ Len(out) = Len(body) + 2
                    /\ out[1] = <<".", ".", " ">> \o admonition
                                    \o <<":", ":", " ">>
                                    \o (IF EndsWith(param, ":")
                                        THEN SubSeq(param, 1, Len(param) - 1)
                                        ELSE param)
                    /\ out[2] = <<>>
                    /\ out[Len(out)] = <<>>
                    /\ \A i \in 1..Len(rest) :
                           out[i + 2] = <<" ", " ", " ">>
                               \o SubSeq(rest[i], common + 1, Len(rest[i]))

C12_Witness ==
    /\ pc = "done"
    /\ admonition = <<"d", "e", "p", "r", "e", "c", "a", "t", "e", "d">>
    /\ orig = <<<<>>, <<"2", ".", "0", ":">>, <<" ", " ", "u">>, <<" ", "t">>>>
    /\ out = <<<<".", ".", " ", "d", "e", "p", "r", "e", "c", "a", "t", "e", "d", ":", ":", " ", "2", ".", "0">>, <<>>,
               <<" ", " ", " ", " ", "u">>, <<" ", " ", " ", "t">>, <<>>>>

\* C13: with require_type, a first line that right-stripped does not end
\* with a colon is replaced at the front of the buffer by the right-stripped
\* line plus a colon, every other line unchanged; one that ends with a colon
\* leaves the buffer unmodified.  Without require_type the buffer is never
\* modified before the parent's method runs, so a bare dict line ends up as
\* the description and not as the type.
C13_RequireTypeAddsColon ==
    /\ pc = "super_returns"
           => IF require_type /\ ~EndsWith(RStrip(orig[1]), ":")
              THEN /\ Len(lines) = Len(orig)
                   /\ lines[1] = RStrip(orig[1]) \o <<":">>
                   /\ \A i \in 2..Len(orig) : lines[i] = orig[i]
              ELSE lines = orig
    /\ (section = "returns" /\ pc = "done" /\ ~require_type
            /\ orig = <<BareDict>>)
           => /\ type_str = <<>>
              /\ type_ref = <<>>
              /\ out = <<BareDict>>

C13_Witness ==
    /\ pc = "super_returns"
    /\ require_type
    /\ orig = <<BareDict \o <<" ">>, <<>>, BareDict>>
    /\ lines = <<BareDict \o <<":">>, <<>>, BareDict>>

Min(a, b) == IF a <= b THEN a ELSE b

\* C14: peek_lines(n) never mutates the buffer and never raises; for every
\* buffer and every n >= 1 it returns the first min(n, remaining) lines in
\* buffer order, every position past the end being absent or a non-string
\* end marker; two consecutive peeks return the same result; and after
\* queue_line(x) the first element peeked is x.
C14_PeekIsPure ==
    call.name = "peek_lines"
        => /\ lines = buf_before
           /\ exc = ""
           /\ \A i \in 1..Min(call.n, Len(lines)) : call.ret[i] = lines[i]
           /\ \A i \in (Len(lines) + 1)..call.n :
                  i \in DOMAIN call.ret => ~IsStr(call.ret[i])
           /\ Len(call.ret) <= call.n
           /\ (prev_call.name = "peek_lines" /\ prev_call.n = call.n)
                  => call.ret = prev_call.ret
           /\ prev_call.name = "queue_line" => call.ret[1] = prev_call.line

C14_Witness ==
    /\ prev_call.name = "queue_line"
    /\ prev_call.line = TextLine
    /\ call.name = "peek_lines"
    /\ call.n = 3
    /\ lines = <<TextLine, OpenHdr>>
    /\ call.ret = <<TextLine, OpenHdr, Sentinel>>

\* C16: after any sequence of registrations the entry for keyword K is the
\* strategy, with its label and options, of the most recent registration for
\* K, also when K was registered by the parent's grammar or under another
\* kind of strategy before; and a registration changes no entry but K's.
C16_LastRegistrationWins ==
    /\ \A K \in DOMAIN latest :
           K \in DOMAIN sections /\ sections[K] = latest[K]
    /\ last_reg # NoRegistration
           => /\ DOMAIN sections = DOMAIN sections_before \cup {last_reg.keyword}
              /\ \A k \in DOMAIN sections_before \ {last_reg.keyword} :
                     sections[k] = sections_before[k]

C16_Witness ==
    /\ pc = "constructed"
    /\ last_reg.keyword = KwReturns
    /\ last_reg.strategy = [kind |-> "version_info", require_type |-> FALSE,
                            label |-> CallerLabel]
    /\ sections_before[KwReturns].kind = "fields"
    /\ sections[KwReturns] = last_reg.strategy
    /\ sections[<<"k", "e", "y", "s">>].kind = "returns"

\* The keywords registered through the register_* methods when the parse ran.
RegisteredAtParse == DOMAIN parsed_with \ DOMAIN BaseSections

\* C17: a section registered under keyword K through a register_* method is
\* dispatched for every header that equals K ignoring letter case, and no
\* section is dispatched for a header that is only a prefix or a superstring
\* of the keywords.
C17_CaseInsensitiveExactMatch ==
    parse_count = 1
        => /\ \A K \in RegisteredAtParse :
                  Lower(header) = Lower(K) => dispatched = parsed_with[K]
           /\ (\A K \in DOMAIN parsed_with : Lower(header) # Lower(K))
                  => dispatched = NoStrategy

\* C18: construction parses exactly once: the _parse() of the parent's
\* constructor parses nothing, and the one parse runs when every built-in
\* section is registered: context and type as returns-like, type with
\* require_type; keys, model attributes, option args and tuple as fields;
\* deprecated, version added and version changed as admonitions.
C18_ParsedOnceAfterRegistration ==
    /\ parse_count <= 1
    /\ pc \in {"super_init", "registering"} => parse_count = 0
    /\ pc = "constructed" => parse_count = 1
    /\ parse_count = 1
           => /\ todo = <<>>
              /\ parsed_with[<<"c", "o", "n", "t", "e", "x", "t">>]
                     = [kind |-> "returns", require_type |-> FALSE,
                        label |-> <<"C", "o", "n", "t", "e", "x", "t">>]
              /\ parsed_with[<<"t", "y", "p", "e">>]
                     = [kind |-> "returns", require_type |-> TRUE,
                        label |-> <<"T", "y", "p", "e">>]
              /\ parsed_with[<<"k", "e", "y", "s">>]
                     = [kind |-> "fields", require_type |-> FALSE,
                        label |-> <<"K", "e", "y", "s">>]
              /\ parsed_with[<<"m", "o", "d", "e", "l", " ", "a", "t", "t", "r", "i", "b", "u", "t", "e", "s">>]
                     = [kind |-> "fields", require_type |-> FALSE,
                        label |-> <<"M", "o", "d", "e", "l", " ", "A", "t", "t", "r", "i", "b", "u", "t", "e", "s">>]
              /\ parsed_with[<<"o", "p", "t", "i", "o", "n", " ", "a", "r", "g", "s">>]
                     = [kind |-> "fields", require_type |-> FALSE,
                        label |-> <<"O", "p", "t", "i", "o", "n", " ", "A", "r", "g", "s">>]
              /\ parsed_with[<<"t", "u", "p", "l", "e">>]
                     = [kind |-> "fields", require_type |-> FALSE,
                        label |-> <<"T", "u", "p", "l", "e">>]
              /\ parsed_with[<<"d", "e", "p", "r", "e", "c", "a", "t", "e", "d">>]
                     = [kind |-> "version_info", require_type |-> FALSE,
                        label |-> <<"d", "e", "p", "r", "e", "c", "a", "t", "e", "d">>]
              /\ parsed_with[<<"v", "e", "r", "s", "i", "o", "n", " ", "a", "d", "d", "e", "d">>]
                     = [kind |-> "version_info", require_type |-> FALSE,
                        label |-> <<"v", "e", "r", "s", "i", "o", "n", "a", "d", "d", "e", "d">>]
              /\ parsed_with[<<"v", "e", "r", "s", "i", "o", "n", " ", "c", "h", "a", "n", "g", "e", "d">>]
                     = [kind |-> "version_info", require_type |-> FALSE,
                        label |-> <<"v", "e", "r", "s", "i", "o", "n", "c", "h", "a", "n", "g", "e", "d">>]

C18_Witness ==
    /\ pc = "constructed"
    /\ parse_count = 1
    /\ last_reg.keyword =
           <<"v", "e", "r", "s", "i", "o", "n", " ", "c", "h", "a", "n", "g", "e", "d">>
    /\ parsed_with = sections
    /\ header = <<"K", "e", "y", "s">>
    /\ dispatched = [kind |-> "fields", require_type |-> FALSE,
                     label |-> <<"K", "e", "y", "s">>]

\* C19: for a member of the module being documented _filter_members
\* returns True if the name is in the module's __autodoc_excludes__, in
\* autodoc_excludes[what], in autodoc_excludes['*'] or in the module's
\* __deprecated__, and the incoming skip otherwise; a name listed only under
\* another what key does not exclude the member.
C19_FilterMembers ==
    (member # NoMember /\ member.module.documented)
        => LET listed(key) == /\ key \in DOMAIN autodoc_excludes
                              /\ member.name \in autodoc_excludes[key]
               excluded == \/ member.name \in member.module.autodoc_excludes
                           \/ listed(member.what)
                           \/ listed("*")
                           \/ member.name \in member.module.deprecated
           IN  /\ excluded => skipped = TRUE
               /\ ~excluded => skipped = member.skip

C19_Witness ==
    /\ member.module = [documented |-> TRUE, autodoc_excludes |-> {},
                        deprecated |-> {}]
    /\ member.what = "module"
    /\ member.name = "bar"
    /\ member.skip = FALSE
    /\ "class" \in DOMAIN autodoc_excludes
    /\ autodoc_excludes["class"] = {"bar"}
    /\ skipped = FALSE

\* The four default names C20 lists.
FourDefaults == {"__dict__", "__doc__", "__module__", "__weakref__"}

\* C20: with autodoc_excludes left at its default the exclusions in effect
\* after config-inited are exactly '*': __dict__, __doc__, __module__,
\* __weakref__, and these four names are exactly what a user's '*' entries
\* are merged with under '__defaults__': True.
C20_FourDefaultNames ==
    (pc = "configured" /\ "__defaults__" \in DOMAIN user_excludes
         /\ user_excludes["__defaults__"])
        => /\ user_excludes = DefaultConfig
                  => autodoc_excludes = [k \in {"*"} |-> FourDefaults]
           /\ autodoc_excludes["*"]
                  = FourDefaults
                        \cup (IF "*" \in DOMAIN user_excludes
                              THEN {user_excludes["*"][i] :
                                       i \in DOMAIN user_excludes["*"]}
                              ELSE {})

\* The names a list of conf.py holds.
NamesIn(list) == {n \in Names \cup BuiltinDefaults :
                     \E i \in DOMAIN list : list[i] = n}

\* The keys of the table of conf.py other than '__defaults__'.
UserKeys == DOMAIN user_excludes \ {"__defaults__"}

\* C21: after config-inited, with a truthy '__defaults__' the '*' set is the
\* union of the built-in defaults and the user's '*' entries and every other
\* user key keeps exactly its names; without one (the empty table included)
\* the result has exactly the user's keys and names and no default is added;
\* '__defaults__' is never a key of the result, and every value is a set.
C21_ExcludesNormalized ==
    pc = "configured"
        => /\ "__defaults__" \notin DOMAIN autodoc_excludes
           /\ \A k \in DOMAIN autodoc_excludes :
                  autodoc_excludes[k] \in SUBSET (Names \cup BuiltinDefaults)
           /\ IF "__defaults__" \in DOMAIN user_excludes
                     /\ user_excludes["__defaults__"] = TRUE
              THEN /\ DOMAIN autodoc_excludes = UserKeys \cup {"*"}
                   /\ autodoc_excludes["*"]
                          = BuiltinDefaults
                                \cup (IF "*" \in UserKeys
                                      THEN NamesIn(user_excludes["*"])
                                      ELSE {})
                   /\ \A k \in UserKeys \ {"*"} :
                          autodoc_excludes[k] = NamesIn(user_excludes[k])
              ELSE /\ DOMAIN autodoc_excludes = UserKeys
                   /\ \A k \in UserKeys :
                          autodoc_excludes[k] = NamesIn(user_excludes[k])

C21_Witness ==
    /\ pc = "configured"
    /\ user_excludes = Config(<<FALSE>>, <<<<"foo">>>>, <<<<"bar", "bar">>>>)
    /\ DOMAIN autodoc_excludes = {"*", "class"}
    /\ autodoc_excludes["*"] = {"foo"}
    /\ autodoc_excludes["class"] = {"bar"}

\* C29: _filter_members only adds exclusions: whenever the incoming skip is
\* True it returns True, whether or not a module is being documented.
C29_SkipIsKept ==
    (member # NoMember /\ member.skip) => skipped = TRUE

\* The first of the nodes, in source order, that assigns to the name or is
\* named so; NoNode when there is none.
FirstFor(nodes, name) ==
    LET found == {i \in 1..Len(nodes) :
                     \/ nodes[i].kind = "assign" /\ name \in nodes[i].targets
                     \/ nodes[i].kind = "def" /\ nodes[i].name = name}
    IN  IF found = {} THEN NoNode
        ELSE nodes[CHOOSE i \in found : \A j \in found : i <= j]

\* What C26 says a path of up to three components resolves to below a node
\* n found for its first component: n itself when n is an assignment or the
\* path ends with it, else what the rest resolves to inside n's body alone.
ResolvedBelow(n, rest) ==
    IF n = NoNode THEN NoNode
    ELSE IF n.kind = "assign" \/ rest = <<>> THEN n
    ELSE LET m == FirstFor(n.body, rest[1])
         IN  IF m = NoNode THEN NoNode
             ELSE IF m.kind = "assign" \/ Len(rest) = 1 THEN m
             ELSE FirstFor(m.body, rest[2])

\* C26: a dotted path is resolved component by component in source order:
\* the first node assigning to the component is returned at once, even with
\* components left (MyNamedTuple.__match_args__ gives the assignment of
\* MyNamedTuple); the first node named like it is returned for the last
\* component, else the search goes on inside its body only (ClassB.my_var is
\* the attribute of ClassB, not the my_var of the module); None when a
\* component is not found.
C26_PathResolvedByComponents ==
    (pc = "done" /\ request.fn = "_find_path_in_ast_nodes")
        => /\ outcome.node
                  = ResolvedBelow(FirstFor(request.nodes, request.path[1]),
                                  Tail(request.path))
           /\ (request.nodes = TestModuleTree
                  /\ request.path[1] = <<"C", "l", "a", "s", "s", "B">>
                  /\ Len(request.path) = 2
                  /\ request.path[2] = <<"m", "y", "_", "v", "a", "r">>)
                  => outcome.node.lineno = 12

C26_Witness ==
    /\ pc = "done"
    /\ request.fn = "_find_path_in_ast_nodes"
    /\ request.nodes = TestModuleTree
    /\ request.path = <<<<"M", "y", "N", "a", "m", "e", "d", "T", "u", "p", "l", "e">>,
                        <<"_", "_", "m", "a", "t", "c", "h", "_", "a", "r", "g", "s", "_", "_">>>>
    /\ outcome.node.kind = "assign"
    /\ outcome.node.lineno = 27

\* The lines of the listing whose ref starts with origin/ and does not end
\* with /HEAD.
Qualifying(listing) ==
    {i \in 1..Len(listing) :
        /\ BranchLineMatches(listing[i])
        /\ SubSeq(listing[i].ref_name, 1, 7) = <<"o", "r", "i", "g", "i", "n", "/">>
        /\ SubSeq(listing[i].ref_name, Len(listing[i].ref_name) - 4,
                  Len(listing[i].ref_name)) # <<"/", "H", "E", "A", "D">>}

\* C25: of the listed refs that start with the remote's prefix and do not
\* end with /HEAD, the one at the smallest commit distance is returned, the
\* first listed winning a tie, without the prefix; None when none qualifies.
C25_NearestTrackingBranch ==
    (pc = "done" /\ request.fn = "_git_get_nearest_tracking_branch"
         /\ ~outcome.raised)
        => LET listing == request.git.listing
               cand == Qualifying(listing)
           IN  IF cand = {} THEN outcome.ref = None
               ELSE \E i \in cand :
                        /\ \A j \in cand :
                               listing[i].distance <= listing[j].distance
                        /\ \A j \in cand :
                               listing[j].distance = listing[i].distance
                                   => i <= j
                        /\ <<"o", "r", "i", "g", "i", "n", "/">> \o outcome.ref
                               = listing[i].ref_name

C25_Witness ==
    /\ pc = "done"
    /\ request.fn = "_git_get_nearest_tracking_branch"
    /\ Len(request.git.listing) = 3
    /\ request.git.listing[1].ref_name = <<"o", "r", "i", "g", "i", "n", "/", "H", "E", "A", "D">>
    /\ request.git.listing[2].ref_name = <<"o", "r", "i", "g", "i", "n", "/", "b">>
    /\ request.git.listing[2].distance = 1
    /\ request.git.listing[3].ref_name = <<"o", "r", "i", "g", "i", "n", "/", "a">>
    /\ request.git.listing[3].distance = 1
    /\ outcome.ref = <<"b">>
    /\ outcome.cmds = <<"fetch", "branch", "log", "log">>

\* The loaded module a resolve names, if any.
LoadedFor(req) == {m \in SysModules : m.name = req.module}

\* The module a resolve names is loaded, parses and holds the symbol.
Located(req) ==
    \E m \in LoadedFor(req) :
        /\ m.parses
        /\ find_path_in_ast_nodes(m.source, SplitOn(req.fullname, "."))
               # NoNode

\* The package of a dotted module name: what comes before its first dot.
TopLevelPackage(name) ==
    LET dots == {i \in 1..Len(name) : name[i] = "."}
    IN  IF dots = {} THEN name
        ELSE SubSeq(name, 1, (CHOOSE i \in dots : \A j \in dots : i <= j) - 1)

\* C22: github_linkcode_resolve returns None and runs no git command when
\* the domain is not py, the module name is empty, the module's top-level
\* package is not among the allowed ones, the module is not loaded or the
\* symbol cannot be located; git runs only once the node has been found.
C22_NoGitBeforeNode ==
    request.fn = "github_linkcode_resolve"
        => /\ (\/ request.domain # "py"
               \/ request.module = <<>>
               \/ /\ request.allowed_module_names # {}
                  /\ TopLevelPackage(request.module)
                         \notin request.allowed_module_names
               \/ LoadedFor(request) = {}
               \/ ~Located(request))
                  => outcome.returns = "None" /\ outcome.cmds = <<>>
           /\ outcome.cmds # <<>>
                  => Located(request) /\ request.domain = "py"

C22_Witness ==
    /\ request.fn = "github_linkcode_resolve"
    /\ request.domain = "py"
    /\ request.module = <<"a">>
    /\ request.fullname = <<"w">>
    /\ head_before = ""
    /\ outcome.looked_up
    /\ outcome.returns = "None"
    /\ outcome.cmds = <<>>

\* C23: once a module has been parsed, a later lookup for it made while its
\* entry is in _ast_cache does not parse it again and leaves _ast_cache as
\* it was.
C23_CachedTreeReused ==
    (/\ request.fn = "github_linkcode_resolve"
     /\ outcome.looked_up
     /\ \E i \in 1..Len(cache_before) :
            cache_before[i][1].name = request.module)
        => ~outcome.parsed /\ ast_cache = cache_before

\* The git commands of one resolve: fetch, branch --contains, a log for each
\* candidate ref, rev-parse.
GitOrder(listing) ==
    <<"fetch", "branch">>
        \o [i \in 1..Cardinality(Qualifying(listing)) |-> "log"]
        \o <<"rev-parse">>

\* C24: once a resolve has obtained a SHA, later resolves run no git command
\* and link to that SHA until clear_github_linkcode_caches() is called,
\* after which the next one runs git again; the commands of one resolve run
\* in the order fetch, branch --contains, one log per candidate, rev-parse.
C24_ShaCached ==
    /\ (request.fn = "github_linkcode_resolve" /\ head_before # "")
           => /\ head_ref = head_before
              /\ outcome.cmds = <<>>
              /\ outcome.returns = "url" => outcome.ref = head_before
    /\ request.fn = "clear_github_linkcode_caches" => head_ref = ""
    /\ (/\ request.fn = "github_linkcode_resolve"
        /\ head_before = ""
        /\ Located(request) /\ outcome.looked_up)
           => LET order == GitOrder(request.git.listing)
              IN  /\ outcome.cmds # <<>>
                  /\ Len(outcome.cmds) <= Len(order)
                  /\ \A i \in 1..Len(outcome.cmds) :
                         outcome.cmds[i] = order[i]
                  /\ (outcome.returns = "url" /\ request.git.fails = "")
                         => /\ outcome.cmds = order
                            /\ outcome.ref = request.git.rev_parse
                            /\ head_ref = request.git.rev_parse

C24_Witness ==
    /\ request.fn = "github_linkcode_resolve"
    /\ head_before = "sha1"
    /\ request.git.rev_parse = "sha2"
    /\ request.git.fails = ""
    /\ outcome.returns = "url"
    /\ outcome.ref = "sha1"
    /\ outcome.cmds = <<>>

\* C28: _ast_cache never holds more than _AST_CACHE_MAX_SIZE entries; a
\* lookup that parses puts its entry first and keeps the entries before it
\* in their order, dropping the last one of a full cache; a source that
\* cannot be parsed leaves the cache alone and yields None; a clear empties
\* the cache.
C28_AstCacheBounded ==
    /\ Len(ast_cache) <= 5
    /\ (request.fn = "github_linkcode_resolve" /\ outcome.parsed)
           => /\ ast_cache # <<>>
              /\ ast_cache[1][1].name = request.module
              /\ Tail(ast_cache)
                     = SubSeq(cache_before, 1, Min(Len(cache_before), 4))
    /\ (/\ request.fn = "github_linkcode_resolve"
        /\ outcome.looked_up
        /\ \E m \in LoadedFor(request) : ~m.parses)
           => ast_cache = cache_before /\ outcome.returns = "None"
    /\ request.fn = "clear_github_linkcode_caches" => ast_cache = <<>>

C28_Witness ==
    /\ request.fn = "github_linkcode_resolve"
    /\ outcome.parsed
    /\ Len(cache_before) = 5
    /\ cache_before[5][1].name = <<"a">>
    /\ Len(ast_cache) = 5
    /\ \A i \in 1..5 : ast_cache[i][1].name = <<"b", ".", "c">>

\* The entries list the documents in order, each with its name and title,
\* and with an items key exactly when the document has toctree children,
\* the items being well formed for the children.
RECURSIVE WellFormed(_, _, _)
WellFormed(env, toc, docnames) ==
    /\ Len(toc) = Len(docnames)
    /\ \A i \in 1..Len(toc) :
           LET children == env.toctree_includes[docnames[i]]
           IN  /\ toc[i].docname = docnames[i]
               /\ toc[i].title = env.titles[docnames[i]][1]
               /\ DOMAIN toc[i] = IF children # <<>>
                                  THEN {"docname", "title", "items"}
                                  ELSE {"docname", "title"}
               /\ children # <<>> => WellFormed(env, toc[i].items, children)

\* C27: handle_finish sets globalcontext['toc'] to the table of contents
\* rooted at index when index has a title, else at root_doc when that has a
\* title, else to None; every entry has docname and title, and has items
\* exactly when the document has toctree children, in toctree order.
C27_TocIsBuiltFromIndexOrRoot ==
    (pc = "done" /\ request.fn = "handle_finish" /\ exc = "")
        => LET env == request.env
               toc == globalcontext.toc
           IN  IF "index" \in DOMAIN env.titles
               THEN toc.kind = "list"
                        /\ WellFormed(env, toc.entries, <<"index">>)
               ELSE IF env.root_doc # "" /\ env.root_doc \in DOMAIN env.titles
               THEN toc.kind = "list"
                        /\ WellFormed(env, toc.entries, <<env.root_doc>>)
               ELSE toc.kind = "None"

C27_Witness ==
    /\ pc = "done"
    /\ request.fn = "handle_finish"
    /\ request.env.root_doc = "top"
    /\ globalcontext.toc.kind = "list"
    /\ globalcontext.toc.entries
           = <<[docname |-> "index", title |-> "Top Page",
                items |-> <<[docname |-> "top", title |-> "Contents",
                             items |-> <<[docname |-> "a",
                                          title |-> "Page 1"]>>],
                            [docname |-> "a", title |-> "Page 1"]>>]>>

\* C30: _build_toc ends for every toctree_includes relation, one with a
\* cycle included: handle_finish comes back with the table of contents.
C30_BuildTocTerminates ==
    (pc = "done" /\ request.fn = "handle_finish")
        => exc = "" /\ globalcontext.toc.kind # "absent"

=============================================================================
